---- MODULE Spec2Model ----
(***************************************************************************)
(* The documentation search engine of search-docs.ts: the lazily built,    *)
(* module-scoped corpus and index (docs, miniSearch), the four public      *)
(* entry points and the pure helpers they use.                             *)
(*                                                                         *)
(* A JavaScript string is a sequence of one-character strings; positions   *)
(* are 0-based as in the source, so slice(s, a, b) is SubSeq(s, a+1, b).   *)
(***************************************************************************)
EXTENDS Integers, Sequences, FiniteSets, TLC

VARIABLES file, docs, miniSearch, pc, readCount, buildCount, last, snip, hist, titled,
          req, mcp

vars == <<file, docs, miniSearch, pc, readCount, buildCount, last, snip, hist, titled,
          req, mcp>>

(***************************************************************************)
(* Bounds of the model.                                                    *)
(***************************************************************************)
\* number of public calls that may be in flight together
MaxCalls == 2
\* cap on the file reads and index constructions that are counted
MaxReads == 2
\* filler characters on each side of the term in the generated contents
MaxPad == 2

(***************************************************************************)
(* Program constants.                                                      *)
(***************************************************************************)
SNIPPET_MAX_LENGTH == 260
\* MIN_SCORE_RATIO = 0.4, kept as the fraction 4/10
MIN_SCORE_RATIO_NUM == 4
MIN_SCORE_RATIO_DEN == 10
DEFAULT_LIMIT == 5
DEFAULT_CATEGORY_LIMIT == 10
DOCS_PATH == "<dirname>/../data/scix/chunked-index.json"

(***************************************************************************)
(* String primitives of the runtime.                                       *)
(***************************************************************************)
SetMin(S) == CHOOSE x \in S : \A y \in S : x <= y

SetMax(S) == CHOOSE x \in S : \A y \in S : x >= y

Min2(a, b) == IF a <= b THEN a ELSE b

Max2(a, b) == IF a >= b THEN a ELSE b

\* pairs <<lower, upper>> of the cased letters of the alphabet
CasePairs == {<<"a", "A">>, <<"b", "B">>, <<"c", "C">>, <<"d", "D">>, <<"e", "E">>,
              <<"h", "H">>, <<"n", "N">>, <<"o", "O">>, <<"p", "P">>, <<"r", "R">>,
              <<"s", "S">>, <<"t", "T">>, <<"u", "U">>, <<"w", "W">>,
              <<"x", "X">>, <<"y", "Y">>}

Digits == {"0", "1", "2", "3", "4", "5", "6", "7", "8", "9"}

IsSpace(c) == c \in {" ", "\n"}

IsNewline(c) == c = "\n"

IsAlnum(c) == (\E p \in CasePairs : c = p[1] \/ c = p[2]) \/ c \in Digits \/ c \in {"I-dot", "dot-above"}

\* \w of a regular expression
IsWordChar(c) == (\E p \in CasePairs : c = p[1] \/ c = p[2]) \/ c \in Digits \/ c = "_"

\* String.prototype.toLowerCase on one character; U+0130 lowers to two code units
lowerChar(c) == IF \E p \in CasePairs : p[2] = c
                THEN <<(CHOOSE p \in CasePairs : p[2] = c)[1]>>
                ELSE IF c = "I-dot" THEN <<"i", "dot-above">> ELSE <<c>>

upperChar(c) == IF \E p \in CasePairs : p[1] = c
                THEN (CHOOSE p \in CasePairs : p[1] = c)[2]
                ELSE c

\* String.prototype.toLowerCase: the characters lowered, one after the other
RECURSIVE lowerRange(_, _, _)
lowerRange(s, lo, hi) ==
    IF lo > hi THEN <<>>
    ELSE IF lo = hi THEN lowerChar(s[lo])
    ELSE lowerRange(s, lo, (lo + hi) \div 2) \o lowerRange(s, (lo + hi) \div 2 + 1, hi)

toLowerCase(s) == lowerRange(s, 1, Len(s))

slice(s, a, b) == SubSeq(s, Max2(a, 0) + 1, Min2(b, Len(s)))

\* String.prototype.indexOf: the least 0-based position of t in s, or -1
indexOf(s, t) == LET hits == {i \in 0..(Len(s) - Len(t)) : SubSeq(s, i + 1, i + Len(t)) = t}
                 IN  IF hits = {} THEN -1 ELSE SetMin(hits)

trim(s) == LET ns == {i \in 1..Len(s) : ~IsSpace(s[i])}
           IN  IF ns = {} THEN <<>> ELSE SubSeq(s, SetMin(ns), SetMax(ns))

\* s.replace(/\s+/g, ' '): each run of blanks becomes one space
collapseWhitespace(s) ==
    LET marked == [i \in 1..Len(s) |->
                      IF ~IsSpace(s[i]) THEN s[i]
                      ELSE IF i > 1 /\ IsSpace(s[i - 1]) THEN "" ELSE " "]
        Kept(c) == c # ""
    IN  SelectSeq(marked, Kept)

\* the maximal runs of positions that are not separators (sep[i] tells whether
\* position i is one), as <<first, last>>, in order
Runs(sep) ==
    LET starts == {i \in 1..Len(sep) : ~sep[i] /\ (i = 1 \/ sep[i - 1])}
        ends == {i \in 1..Len(sep) : ~sep[i] /\ (i = Len(sep) \/ sep[i + 1])}
        marked == [i \in 1..Len(sep) |-> IF i \in starts THEN <<i, SetMin({e \in ends : e >= i})>> ELSE <<0, 0>>]
        Kept(r) == r # <<0, 0>>
    IN  SelectSeq(marked, Kept)

\* s.split(/\s+/).filter(Boolean)
splitWhitespace(s) == LET rs == Runs([i \in 1..Len(s) |-> IsSpace(s[i])]) IN [k \in 1..Len(rs) |-> SubSeq(s, rs[k][1], rs[k][2])]

(***************************************************************************)
(* Corpus cleaning.                                                        *)
(***************************************************************************)
\* the end (exclusive, 1-based) of a match of \[([^\]]+)\]\([^)]+\) at i, or 0;
\* and the position of the closing bracket
LinkClose(s, i) == LET cs == {j \in (i + 1)..Len(s) : s[j] = "]"}
                   IN  IF cs = {} THEN 0 ELSE SetMin(cs)

LinkEnd(s, i) == LET c == LinkClose(s, i)
                     ps == {j \in (c + 2)..Len(s) : s[j] = ")"}
                 IN  IF s[i] # "[" \/ c = 0 \/ c = i + 1 THEN 0
                     ELSE IF c + 1 > Len(s) \/ s[c + 1] # "(" \/ ps = {} THEN 0
                     ELSE IF SetMin(ps) = c + 2 THEN 0
                     ELSE SetMin(ps)

\* text.replace(/\[([^\]]+)\]\([^)]+\)/g, '$1') from position i on: the next match
\* is the leftmost one, and the scan resumes after it
RECURSIVE stripFrom(_, _, _)
stripFrom(s, i, acc) ==
    LET links == {j \in i..Len(s) : s[j] = "[" /\ LinkEnd(s, j) # 0}
        j == SetMin(links)
    IN  IF links = {} THEN acc \o SubSeq(s, i, Len(s))
        ELSE stripFrom(s, LinkEnd(s, j) + 1, acc \o SubSeq(s, i, j - 1) \o SubSeq(s, j + 1, LinkClose(s, j) - 1))

stripMarkdownLinks(text) == stripFrom(text, 1, <<>>)

normalizeContent(content) == trim(collapseWhitespace(stripMarkdownLinks(content)))

\* /^(#{1,6})\s+(.+)$/m tried at the line start p (1-based): the bounds of group 2
\* as <<first, last>>, or <<0, 0>> when the expression does not match at p
HeadingAt(s, p) ==
    LET nonHash == {j \in p..Len(s) : s[j] # "#"}
        h == IF nonHash = {} THEN Len(s) + 1 ELSE SetMin(nonHash)
        nonSp == {j \in h..Len(s) : ~IsSpace(s[j])}
        q == IF nonSp = {} THEN Len(s) + 1 ELSE SetMin(nonSp)
        nl == {j \in q..Len(s) : IsNewline(s[j])}
        e == IF nl = {} THEN Len(s) ELSE SetMin(nl) - 1
        \* the whitespace run reaches the end of the text: \s+ gives characters back
        \* until (.+) can start on a blank that is no line break
        back == {j \in (h + 1)..Len(s) : ~IsNewline(s[j])}
        bnl == {j \in SetMax(back)..Len(s) : IsNewline(s[j])}
    IN  IF h = p \/ h - p > 6 \/ q = h THEN <<0, 0>>
        ELSE IF q <= Len(s) THEN <<q, e>>
        ELSE IF back = {} THEN <<0, 0>>
        ELSE <<SetMax(back), IF bnl = {} THEN Len(s) ELSE SetMin(bnl) - 1>>

extractFirstHeading(raw) ==
    LET starts == {p \in 1..Len(raw) : (p = 1 \/ IsNewline(raw[p - 1])) /\ HeadingAt(raw, p) # <<0, 0>>}
    IN  IF starts = {} THEN <<>>
        ELSE LET g == HeadingAt(raw, SetMin(starts))
             IN  normalizeContent(SubSeq(raw, g[1], g[2]))

\* .replace(/[-_]+/g, ' ')
dashesToSpace(s) == [i \in 1..Len(s) |-> IF s[i] \in {"-", "_"} THEN " " ELSE s[i]]

\* .replace(/\b\w/g, (c) => c.toUpperCase())
capitalizeWords(s) == [i \in 1..Len(s) |->
                          IF IsWordChar(s[i]) /\ (i = 1 \/ ~IsWordChar(s[i - 1]))
                          THEN upperChar(s[i]) ELSE s[i]]

slugToTitle(slug) == IF slug = <<>> THEN <<>>
                     ELSE capitalizeWords(trim(collapseWhitespace(dashesToSpace(slug))))

\* /what['...]?s?\s*[_\s-]*new/i matched at position i (1-based)
NavAt(s, i) ==
    LET lw == [k \in 1..Len(s) |-> lowerChar(s[k])[1]]
        a == i + 4
        b == IF a <= Len(s) /\ s[a] \in {"'", "a-circumflex", "euro", "trademark"} THEN a + 1 ELSE a
        c == IF b <= Len(s) /\ lw[b] = "s" THEN b + 1 ELSE b
        rest == {j \in c..Len(s) : ~(IsSpace(s[j]) \/ s[j] \in {"_", "-"})}
        d == IF rest = {} THEN Len(s) + 1 ELSE SetMin(rest)
    IN  /\ i + 3 <= Len(s)
        /\ SubSeq(lw, i, i + 3) = <<"w", "h", "a", "t">>
        /\ d + 2 <= Len(s)
        /\ SubSeq(lw, d, d + 2) = <<"n", "e", "w">>

isNavText(text) == \E i \in 1..Len(text) : NavAt(text, i)

\* a field of a record read as a string: a missing field reads as ''
StrOf(doc, f) == IF f \in DOMAIN doc THEN doc[f] ELSE <<>>

NonEmpty(s) == s # <<>>

NotNav(s) == ~isNavText(s)

\* deriveTitle with the title field tried first
deriveTitleFieldFirst(doc, heading) ==
    LET candidates == SelectSeq(<<trim(StrOf(doc, "title")),
                                  heading,
                                  trim(StrOf(doc, "subsection")),
                                  trim(StrOf(doc, "section")),
                                  slugToTitle(StrOf(doc, "source_file")),
                                  StrOf(doc, "id")>>, NonEmpty)
        good == SelectSeq(candidates, NotNav)
    IN  IF good # <<>> THEN good[1] ELSE StrOf(doc, "id")

deriveTitle(doc, heading) ==
    LET candidates == SelectSeq(<<heading,
                                  trim(StrOf(doc, "subsection")),
                                  trim(StrOf(doc, "section")),
                                  trim(StrOf(doc, "title")),
                                  slugToTitle(StrOf(doc, "source_file")),
                                  StrOf(doc, "id")>>, NonEmpty)
        good == SelectSeq(candidates, NotNav)
    IN  IF good # <<>> THEN good[1] ELSE StrOf(doc, "id")

isWhatsNew(doc) == \/ isNavText(StrOf(doc, "source_file"))
                   \/ isNavText(StrOf(doc, "source_url"))
                   \/ isNavText(StrOf(doc, "id"))

\* CleanDoc with char_count left as it is in the file
CleanDocStaleCount(doc) ==
    LET rawContent == StrOf(doc, "content")
        heading == extractFirstHeading(rawContent)
        cleanContent == normalizeContent(rawContent)
    IN  [f \in DOMAIN doc \cup {"title", "section", "subsection", "content", "char_count"} |->
            CASE f = "title" -> deriveTitle(doc, heading)
              [] f = "section" -> trim(StrOf(doc, "section"))
              [] f = "subsection" -> trim(StrOf(doc, "subsection"))
              [] f = "content" -> cleanContent
              [] f = "char_count" -> IF f \in DOMAIN doc THEN doc[f] ELSE Len(cleanContent)
              [] OTHER -> doc[f]]

\* the first .map of initIndex: { ...doc, title, section, subsection, content, char_count }
CleanDoc(doc) ==
    LET rawContent == StrOf(doc, "content")
        heading == extractFirstHeading(rawContent)
        cleanContent == normalizeContent(rawContent)
    IN  [f \in DOMAIN doc \cup {"title", "section", "subsection", "content", "char_count"} |->
            CASE f = "title" -> deriveTitle(doc, heading)
              [] f = "section" -> trim(StrOf(doc, "section"))
              [] f = "subsection" -> trim(StrOf(doc, "subsection"))
              [] f = "content" -> cleanContent
              [] f = "char_count" -> Len(cleanContent)
              [] OTHER -> doc[f]]

\* KeepDoc without the whole-document check for navigation pages
KeepDocWithNavigation(doc) == /\ doc["title"] # <<>>
                              /\ doc["content"] # <<>>
                              /\ doc["title"] # <<"4", "0", "4">>

\* KeepDoc without the test for the '404' title
KeepDocWithSentinel(doc) == /\ doc["title"] # <<>>
                            /\ doc["content"] # <<>>
                            /\ ~isWhatsNew(doc)

\* the .filter of initIndex
KeepDoc(doc) == /\ doc["title"] # <<>>
                /\ doc["content"] # <<>>
                /\ doc["title"] # <<"4", "0", "4">>
                /\ ~isWhatsNew(doc)

CleanCorpus(parsedDocs) == SelectSeq([i \in 1..Len(parsedDocs) |-> CleanDoc(parsedDocs[i])], KeepDoc)

(***************************************************************************)
(* The index (MiniSearch): documents are tokenized per field when added;   *)
(* a search scores every document against the query terms and returns the  *)
(* matching ones by descending score.                                      *)
(***************************************************************************)
MainFields == <<"title", "section", "subsection", "content", "doc_type", "category">>

CategoryFields == <<"title", "section", "subsection", "content">>

\* the default tokenizer splits on blanks and punctuation, and terms are lowercased
IsSeparator(c) == ~IsAlnum(c)

tokenize(s) == LET rs == Runs([i \in 1..Len(s) |-> IsSeparator(s[i])])
               IN  [k \in 1..Len(rs) |-> toLowerCase(SubSeq(s, rs[k][1], rs[k][2]))]

\* the terms of an indexed field
termsOf(s) == LET ts == tokenize(s) IN {ts[k] : k \in 1..Len(ts)}

FieldSet(fields) == {fields[i] : i \in 1..Len(fields)}

\* new MiniSearch({ fields, storeFields })
NewIndex(fields) == [fields |-> fields, documents |-> <<>>, terms |-> <<>>]

\* the position of the first document that add() rejects (no id, or an id
\* already in the index), or 0
FirstRejected(ds) ==
    LET bad == {i \in 1..Len(ds) : \/ "id" \notin DOMAIN ds[i]
                                   \/ \E j \in 1..(i - 1) : "id" \in DOMAIN ds[j] /\ ds[j]["id"] = ds[i]["id"]}
    IN  IF bad = {} THEN 0 ELSE SetMin(bad)

\* addAll(ds) on a fresh index: every document up to the first rejected one is added
addAll(index, ds) ==
    LET k == FirstRejected(ds)
        n == IF k = 0 THEN Len(ds) ELSE k - 1
    IN  [index EXCEPT !.documents = SubSeq(ds, 1, n),
                      !.terms = [i \in 1..n |->
                                   [f \in FieldSet(index.fields) |->
                                       IF f \in DOMAIN ds[i] THEN termsOf(ds[i][f]) ELSE {}]]]

IsPrefix(t, w) == Len(t) < Len(w) /\ SubSeq(w, 1, Len(t)) = t

\* edit distance at most 1 between two different terms
WithinOneEdit(a, b) ==
    \/ /\ Len(a) = Len(b)
       /\ Cardinality({i \in 1..Len(a) : a[i] # b[i]}) = 1
    \/ /\ Len(b) = Len(a) + 1
       /\ \E k \in 1..Len(b) : SubSeq(b, 1, k - 1) \o SubSeq(b, k + 1, Len(b)) = a
    \/ /\ Len(a) = Len(b) + 1
       /\ \E k \in 1..Len(a) : SubSeq(a, 1, k - 1) \o SubSeq(a, k + 1, Len(a)) = b

\* the edit distance allowed for a term: round(length * fuzzy), fuzzy in tenths
MaxDistance(t, opts) == (Len(t) * opts.fuzzy + 5) \div 10

\* the weight of index term w for query term t: exact, prefix or fuzzy match
TermWeight(t, w, opts) ==
    IF t = w THEN 40
    ELSE IF opts.prefix /\ IsPrefix(t, w) THEN 15
    ELSE IF MaxDistance(t, opts) >= 1 /\ WithinOneEdit(t, w) THEN 18
    ELSE 0

RECURSIVE SumWeights(_, _, _)
SumWeights(t, ws, opts) ==
    IF ws = {} THEN 0
    ELSE LET w == CHOOSE x \in ws : TRUE
         IN  TermWeight(t, w, opts) + SumWeights(t, ws \ {w}, opts)

Boost(opts, f) == IF f \in DOMAIN opts.boost THEN opts.boost[f] ELSE 1

RECURSIVE FieldScore(_, _, _, _, _)
FieldScore(index, i, t, k, opts) ==
    IF k > Len(index.fields) THEN 0
    ELSE Boost(opts, index.fields[k]) * SumWeights(t, index.terms[i][index.fields[k]], opts)
         + FieldScore(index, i, t, k + 1, opts)

RECURSIVE DocScore(_, _, _, _, _)
DocScore(index, i, qterms, k, opts) ==
    IF k > Len(qterms) THEN 0
    ELSE FieldScore(index, i, qterms[k], 1, opts) + DocScore(index, i, qterms, k + 1, opts)

\* results.sort((a, b) => b.score - a.score), which is stable
RECURSIVE InsertByScore(_, _)
InsertByScore(sorted, r) ==
    IF sorted = <<>> THEN <<r>>
    ELSE IF sorted[Len(sorted)].score >= r.score THEN Append(sorted, r)
    ELSE Append(InsertByScore(SubSeq(sorted, 1, Len(sorted) - 1), r), sorted[Len(sorted)])

RECURSIVE SortByScore(_, _, _)
SortByScore(rs, i, acc) ==
    IF i > Len(rs) THEN acc ELSE SortByScore(rs, i + 1, InsertByScore(acc, rs[i]))

\* the options with every field boost left at 1: a document matches when some
\* query term matches a term of some field, whatever the boosts
Unboosted(opts) == [opts EXCEPT !.boost = [k \in {} |-> 1]]

IsMatch(r) == r.matched

\* index.search(query, opts): the matching documents with their stored fields and score
search(index, query, opts) ==
    LET qterms == tokenize(query)
        scored == [i \in 1..Len(index.documents) |->
                      [doc |-> index.documents[i],
                       score |-> DocScore(index, i, qterms, 1, opts),
                       matched |-> DocScore(index, i, qterms, 1, Unboosted(opts)) > 0]]
    IN  SortByScore(SelectSeq(scored, IsMatch), 1, <<>>)

(***************************************************************************)
(* Snippets.                                                               *)
(***************************************************************************)
\* the loop of makeSnippet: the least position at which a term occurs, or -1
RECURSIVE firstMatch(_, _, _, _)
firstMatch(lower, terms, k, idx) ==
    IF k > Len(terms) THEN idx
    ELSE LET i == indexOf(lower, toLowerCase(terms[k]))
         IN  firstMatch(lower, terms, k + 1, IF i # -1 /\ (idx = -1 \/ i < idx) THEN i ELSE idx)

\* makeSnippet with the window end measured from the match instead of the start
makeSnippetFromMatch(content, terms, maxLen) ==
    IF content = <<>> THEN <<>>
    ELSE LET lower == toLowerCase(content)
             idx == firstMatch(lower, terms, 1, -1)
             start == Max2(0, idx - (maxLen \div 2))
             end == Min2(Len(content), idx + maxLen)
         IN  IF idx = -1
             THEN slice(content, 0, maxLen) \o (IF Len(content) > maxLen THEN <<".", ".", ".">> ELSE <<>>)
             ELSE (IF start > 0 THEN <<".", ".", ".">> ELSE <<>>)
                  \o slice(content, start, end)
                  \o (IF end < Len(content) THEN <<".", ".", ".">> ELSE <<>>)

makeSnippet(content, terms, maxLen) ==
    IF content = <<>> THEN <<>>
    ELSE LET lower == toLowerCase(content)
             idx == firstMatch(lower, terms, 1, -1)
             start == Max2(0, idx - (maxLen \div 2))
             end == Min2(Len(content), start + maxLen)
         IN  IF idx = -1
             THEN slice(content, 0, maxLen) \o (IF Len(content) > maxLen THEN <<".", ".", ".">> ELSE <<>>)
             ELSE (IF start > 0 THEN <<".", ".", ".">> ELSE <<>>)
                  \o slice(content, start, end)
                  \o (IF end < Len(content) THEN <<".", ".", ".">> ELSE <<>>)

(***************************************************************************)
(* The public entry points, after `await initIndex()` has returned.        *)
(* A limit is missing, NaN, +Infinity, -Infinity or the number twice / 2.  *)
(***************************************************************************)
BASE_SEARCH_OPTIONS == [prefix |-> TRUE, fuzzy |-> 2,
                        boost |-> [title |-> 4, section |-> 3, subsection |-> 2, doc_type |-> 2]]

CATEGORY_SEARCH_OPTIONS == [prefix |-> TRUE, fuzzy |-> 2, boost |-> [title |-> 4, section |-> 2]]

\* { ...base, ...options }
MergeOptions(base, options) ==
    [k \in DOMAIN base |-> IF k \in DOMAIN options THEN options[k] ELSE base[k]]

IsFinite(limit) == limit.kind = "num"

Floor(limit) == limit.twice \div 2

\* limitValue with the limit rounded up instead of down
limitValueCeil(limit) ==
    IF limit.kind = "missing" THEN Max2(1, DEFAULT_LIMIT)
    ELSE IF IsFinite(limit) THEN Max2(1, (limit.twice + 1) \div 2)
    ELSE 5

\* Number.isFinite(limit) ? Math.max(1, Math.floor(limit)) : 5, with 5 the default
limitValue(limit) ==
    IF limit.kind = "missing" THEN Max2(1, DEFAULT_LIMIT)
    ELSE IF IsFinite(limit) THEN Max2(1, Floor(limit))
    ELSE 5

\* Math.min(limitValue, docs.length || limitValue)
maxResults(limit, ds) == Min2(limitValue(limit), IF Len(ds) # 0 THEN Len(ds) ELSE limitValue(limit))

\* results.filter((r) => r.score >= topScore * MIN_SCORE_RATIO) when topScore > 0
PassesCutoff(r, topScore) == r.score * MIN_SCORE_RATIO_DEN >= topScore * MIN_SCORE_RATIO_NUM

\* filterResults without the cutoff
filterResultsKeepAll(results) == results

filterResults(results) ==
    LET topScore == IF results # <<>> THEN results[1].score ELSE 0
        Pass(r) == PassesCutoff(r, topScore)
    IN  IF topScore > 0 THEN SelectSeq(results, Pass) ELSE results

HitFields == {"id", "title", "section", "subsection", "source_file", "source_url", "doc_type", "category"}

\* the hit built from a search result: absent stored fields read as ''
ResultHit(r, terms) ==
    [f \in HitFields \cup {"score", "snippet"} |->
        CASE f = "score" -> r.score
          [] f = "snippet" -> makeSnippet(StrOf(r.doc, "content"), terms, SNIPPET_MAX_LENGTH)
          [] OTHER -> StrOf(r.doc, f)]

\* the hit built from a corpus chunk in the browse path: fields are copied as they are
BrowseHit(d) ==
    [f \in (HitFields \cap DOMAIN d) \cup {"score", "snippet"} |->
        CASE f = "score" -> 0
          [] f = "snippet" -> slice(d["content"], 0, SNIPPET_MAX_LENGTH)
                              \o (IF Len(d["content"]) > SNIPPET_MAX_LENGTH THEN <<".", ".", ".">> ELSE <<>>)
          [] OTHER -> d[f]]

\* the raw result list of searchDocs: miniSearch.search(trimmedQuery, searchOptions)
searchDocsRaw(index, query, options) ==
    search(index, trim(query), MergeOptions(BASE_SEARCH_OPTIONS, options))

\* searchDocsHits with the kept results taken in reverse
searchDocsHitsReversed(ds, results, query, limit) ==
    LET terms == splitWhitespace(trim(query))
        filteredResults == filterResults(results)
        shown == SubSeq(filteredResults, 1, Min2(maxResults(limit, ds), Len(filteredResults)))
    IN  [i \in 1..Len(shown) |-> ResultHit(shown[Len(shown) + 1 - i], terms)]

\* searchDocsHits that keeps the end of the kept results instead of the start
searchDocsHitsTail(ds, results, query, limit) ==
    LET terms == splitWhitespace(trim(query))
        filteredResults == filterResults(results)
        n == Min2(maxResults(limit, ds), Len(filteredResults))
        shown == SubSeq(filteredResults, Len(filteredResults) - n + 1, Len(filteredResults))
    IN  [i \in 1..Len(shown) |-> ResultHit(shown[i], terms)]

searchDocsHits(ds, results, query, limit) ==
    LET trimmedQuery == trim(query)
        terms == splitWhitespace(trimmedQuery)
        filteredResults == filterResults(results)
        shown == SubSeq(filteredResults, 1, Min2(maxResults(limit, ds), Len(filteredResults)))
    IN  [i \in 1..Len(shown) |-> ResultHit(shown[i], terms)]

\* searchDocs without the early return for an empty query
searchDocsAlwaysSearch(ds, index, query, limit, options) ==
    LET results == searchDocsRaw(index, query, options)
    IN  [value |-> searchDocsHits(ds, results, query, limit), raw |-> results, searched |-> TRUE]

\* searchDocs: the value returned, the raw result list and whether the index was searched
searchDocs(ds, index, query, limit, options) ==
    IF trim(query) = <<>>
    THEN [value |-> <<>>, raw |-> <<>>, searched |-> FALSE]
    ELSE LET results == searchDocsRaw(index, query, options)
         IN  [value |-> searchDocsHits(ds, results, query, limit),
              raw |-> results,
              searched |-> TRUE]

\* getDocById matching on the first character of the id only
getDocByIdLoose(ds, id) ==
    LET found == {i \in 1..Len(ds) : "id" \in DOMAIN ds[i] /\ SubSeq(ds[i]["id"], 1, 1) = SubSeq(id, 1, 1)}
    IN  IF found = {} THEN [found |-> FALSE, doc |-> <<>>, ref |-> 0]
        ELSE [found |-> TRUE, doc |-> ds[SetMin(found)], ref |-> SetMin(found)]

\* docs.find((d) => d.id === id) || null: the element of docs itself is
\* returned, so the result is doc together with its place in docs (ref)
getDocById(ds, id) ==
    LET found == {i \in 1..Len(ds) : "id" \in DOMAIN ds[i] /\ ds[i]["id"] = id}
    IN  IF found = {} THEN [found |-> FALSE, doc |-> <<>>, ref |-> 0]
        ELSE [found |-> TRUE, doc |-> ds[SetMin(found)], ref |-> SetMin(found)]

\* safeLimit with the limit rounded up instead of down
safeLimitCeil(limit) ==
    CASE limit.kind = "missing" -> Max2(1, DEFAULT_CATEGORY_LIMIT)
      [] limit.kind = "num" -> Max2(1, IF (limit.twice + 1) \div 2 # 0 THEN (limit.twice + 1) \div 2 ELSE 1)
      [] limit.kind = "inf" -> 0
      [] OTHER -> 1

\* Math.max(1, Math.floor(limit) || 1), with 10 the default; 0 stands for no bound
safeLimit(limit) ==
    CASE limit.kind = "missing" -> Max2(1, DEFAULT_CATEGORY_LIMIT)
      [] limit.kind = "num" -> Max2(1, IF Floor(limit) # 0 THEN Floor(limit) ELSE 1)
      [] limit.kind = "inf" -> 0
      [] OTHER -> 1

\* TakeFirst that takes one element more
TakeFirstAndNext(s, n) == IF n = 0 THEN s ELSE SubSeq(s, 1, Min2(n + 1, Len(s)))

\* .slice(0, n)
TakeFirst(s, n) == IF n = 0 THEN s ELSE SubSeq(s, 1, Min2(n, Len(s)))

\* searchByCategory over the whole corpus, whatever the category
searchByCategoryUnscoped(ds, category, query, limit) ==
    LET tempSearch == addAll(NewIndex(CategoryFields), ds)
        results == search(tempSearch, query, CATEGORY_SEARCH_OPTIONS)
        terms == splitWhitespace(query)
        shown == TakeFirst(results, safeLimit(limit))
        browsed == TakeFirst(ds, safeLimit(limit))
    IN  IF trim(query) = <<>>
        THEN [value |-> [i \in 1..Len(browsed) |-> BrowseHit(browsed[i])],
              raw |-> <<>>, searched |-> FALSE]
        ELSE [value |-> [i \in 1..Len(shown) |-> ResultHit(shown[i], terms)],
              raw |-> results, searched |-> TRUE]

\* searchByCategory with the score cutoff of searchDocs
searchByCategoryWithCutoff(ds, category, query, limit) ==
    LET InCategory(d) == "category" \in DOMAIN d /\ d["category"] = category
        categoryDocs == SelectSeq(ds, InCategory)
        tempSearch == addAll(NewIndex(CategoryFields), categoryDocs)
        results == search(tempSearch, query, CATEGORY_SEARCH_OPTIONS)
        terms == splitWhitespace(query)
        shown == TakeFirst(filterResults(results), safeLimit(limit))
        browsed == TakeFirst(categoryDocs, safeLimit(limit))
    IN  IF trim(query) = <<>>
        THEN [value |-> [i \in 1..Len(browsed) |-> BrowseHit(browsed[i])],
              raw |-> <<>>, searched |-> FALSE]
        ELSE [value |-> [i \in 1..Len(shown) |-> ResultHit(shown[i], terms)],
              raw |-> results, searched |-> TRUE]

searchByCategory(ds, category, query, limit) ==
    LET InCategory(d) == "category" \in DOMAIN d /\ d["category"] = category
        categoryDocs == SelectSeq(ds, InCategory)
        tempSearch == addAll(NewIndex(CategoryFields), categoryDocs)
        results == search(tempSearch, query, CATEGORY_SEARCH_OPTIONS)
        terms == splitWhitespace(query)
        shown == TakeFirst(results, safeLimit(limit))
        browsed == TakeFirst(categoryDocs, safeLimit(limit))
    IN  IF trim(query) = <<>>
        THEN [value |-> [i \in 1..Len(browsed) |-> BrowseHit(browsed[i])],
              raw |-> <<>>, searched |-> FALSE]
        ELSE [value |-> [i \in 1..Len(shown) |-> ResultHit(shown[i], terms)],
              raw |-> results, searched |-> TRUE]

\* a key of byCategory / byDocType: a missing field is the key 'undefined'
KeyOf(d, f) == IF f \in DOMAIN d THEN d[f] ELSE <<"u", "n", "d", "e", "f", "i", "n", "e", "d">>

\* names that the object literal {} inherits from Object.prototype (two of
\* them): a read of stats.byCategory[name] finds the inherited value
ProtoKey == <<"_", "_", "p", "r", "o", "t", "o", "_", "_">>

InheritedKeys == {<<"c", "o", "n", "s", "t", "r", "u", "c", "t", "o", "r">>, ProtoKey}

\* stats.byX[key] = (stats.byX[key] || 0) + 1 over the chunks, on an object
\* literal.  An entry is [number |-> TRUE, n |-> count]; under an inherited name
\* the value read first is an object, `+ 1` appends "1" to its text, and the
\* entry is that text, no number: [number |-> FALSE, n |-> characters appended].
\* An assignment of such a text to __proto__ is ignored: no entry.
CountBy(ds, f) == [k \in {KeyOf(ds[i], f) : i \in 1..Len(ds)} \ {ProtoKey} |->
                      [number |-> k \notin InheritedKeys,
                       n |-> Cardinality({i \in 1..Len(ds) : KeyOf(ds[i], f) = k})]]

RECURSIVE totalChars(_, _)
totalChars(ds, i) == IF i > Len(ds) THEN 0 ELSE Len(ds[i]["content"]) + totalChars(ds, i + 1)

getStats(ds) ==
    [totalDocs |-> Len(ds),
     byCategory |-> CountBy(ds, "category"),
     byDocType |-> CountBy(ds, "doc_type"),
     avgContentLength |-> IF Len(ds) # 0 THEN (2 * totalChars(ds, 1) + Len(ds)) \div (2 * Len(ds)) ELSE 0]

(***************************************************************************)
(* The corpus files the engine is run on.                                  *)
(***************************************************************************)
CatA == <<"c", "1">>

CatB == <<"c", "2">>

Rep(n, c) == [i \in 1..n |-> c]

\* heading, markdown link, stale char_count
R1 == [id |-> <<"d", "1">>, source_file |-> <<"a", "b", "-", "c", "d">>, source_url |-> <<"x">>,
       doc_type |-> <<"t", "1">>, category |-> CatA, title |-> <<"T">>, section |-> <<>>, subsection |-> <<>>,
       content |-> <<"#", " ", "A", "b", " ", "c", "d", "\n", "a", "b", " ", "[", "c", "d", "]", "(", "x", ")",
                     " ", " ", "a", "b">>,
       char_count |-> 99]

\* no heading, title taken from the section
R2 == [id |-> <<"d", "2">>, source_file |-> <<"y">>, source_url |-> <<"x">>,
       doc_type |-> <<"t", "1">>, category |-> CatA, title |-> <<>>, section |-> <<" ", "C", "d", " ">>,
       subsection |-> <<>>, content |-> <<"c", "d", " ", "a", "b">>, char_count |-> 5]

R3 == [id |-> <<"d", "3">>, source_file |-> <<"y">>, source_url |-> <<"x">>,
       doc_type |-> <<"t", "2">>, category |-> CatB, title |-> <<"T">>, section |-> <<>>,
       subsection |-> <<>>, content |-> <<"a", "b", "c", " ", "e">>, char_count |-> 5]

\* the placeholder page
R404 == [id |-> <<"d", "4">>, source_file |-> <<"y">>, source_url |-> <<"x">>,
         doc_type |-> <<"t", "1">>, category |-> CatA, title |-> <<"4", "0", "4">>, section |-> <<>>,
         subsection |-> <<>>, content |-> <<"a", "b">>, char_count |-> 2]

\* a navigation page
RNew == [id |-> <<"d", "5">>, source_file |-> <<"w", "h", "a", "t", "s", "-", "n", "e", "w">>,
         source_url |-> <<"x">>, doc_type |-> <<"t", "1">>, category |-> CatA, title |-> <<"T">>,
         section |-> <<>>, subsection |-> <<>>, content |-> <<"a", "b">>, char_count |-> 2]

\* only id and content
RBare == [id |-> <<"d", "6">>, content |-> <<"a", "b", " ", "a", "b">>]

REmpty == [id |-> <<"d", "7">>, source_file |-> <<"y">>, source_url |-> <<"x">>,
           doc_type |-> <<"t", "1">>, category |-> CatA, title |-> <<"T">>, section |-> <<>>,
           subsection |-> <<>>, content |-> <<" ", "\n">>, char_count |-> 2]

\* a second record with the id of R1
RDup == [id |-> <<"d", "1">>, source_file |-> <<"y">>, source_url |-> <<"x">>,
         doc_type |-> <<"t", "1">>, category |-> CatA, title |-> <<"T">>, section |-> <<>>,
         subsection |-> <<>>, content |-> <<"c", "d">>, char_count |-> 2]

\* content longer than a snippet, the term in the middle
RLong == [id |-> <<"d", "8">>, source_file |-> <<"y">>, source_url |-> <<"x">>,
          doc_type |-> <<"t", "1">>, category |-> CatB, title |-> <<"T">>, section |-> <<>>,
          subsection |-> <<>>,
          content |-> Rep(SNIPPET_MAX_LENGTH \div 2 + MaxPad, "x") \o <<" ", "a", "b", " ">>
                      \o Rep(SNIPPET_MAX_LENGTH \div 2 + MaxPad, "y"),
          char_count |-> 0]

\* records that score alike
RSame(d) == [id |-> <<"e", d>>, source_file |-> <<"y">>, source_url |-> <<"x">>,
             doc_type |-> <<"t", "1">>, category |-> CatA, title |-> <<"T">>, section |-> <<>>,
             subsection |-> <<>>, content |-> <<"a", "b">>, char_count |-> 2]

\* tags that are names of Object.prototype
RProto == [id |-> <<"d", "9">>, source_file |-> <<"y">>, source_url |-> <<"x">>,
           doc_type |-> ProtoKey, category |-> <<"c", "o", "n", "s", "t", "r", "u", "c", "t", "o", "r">>,
           title |-> <<"T">>, section |-> <<>>, subsection |-> <<>>, content |-> <<"a", "b">>, char_count |-> 2]

\* a category, and none of the other optional fields
RPartial == [id |-> <<"p", "1">>, category |-> CatB, content |-> <<"a", "b", " ", "c", "d">>]

\* a null element of the array
RNull == [null |-> TRUE]

IsNull(doc) == "null" \in DOMAIN doc

\* what readFile and JSON.parse make of the file: a read error, text that is no
\* JSON, JSON that is no array, or an array of records
FileOf(kind, value) == [kind |-> kind, value |-> value]

Files == {FileOf("ENOENT", <<>>), FileOf("EACCES", <<>>), FileOf("notjson", <<>>),
          FileOf("object", <<>>),
          FileOf("array", <<>>),
          FileOf("array", <<R2, RNull>>),
          FileOf("array", <<R1, R2, R3, R404, RNew, RBare, REmpty>>),
          FileOf("array", <<R1, R2, RDup, R3>>),
          FileOf("array", <<RLong, R2, RPartial>>),
          FileOf("array", <<R2, RProto, R3>>),
          FileOf("array", <<RSame("0"), RSame("1"), RSame("2"), RSame("3"), RSame("4"), R1, RSame("5")>>)}

(***************************************************************************)
(* Arguments of the public calls.                                          *)
(***************************************************************************)
Num(twice) == [kind |-> "num", twice |-> twice]

NoNum(kind) == [kind |-> kind, twice |-> 0]

Limits == {NoNum("missing"), NoNum("nan"), NoNum("inf"), NoNum("-inf")}
          \cup {Num(t) : t \in {-3, 0, 1, 2, 3, 4, 6, 12, 14}}

SomeLimits == {NoNum("missing"), Num(2)}

Queries == {<<>>, <<" ", "\n">>, <<"a", "b">>, <<" ", "a", "b", " ", " ", "c", "d", " ">>, <<"c", "d">>,
            <<"A", "B">>, <<"a", "b", "d">>, <<"z">>, <<"t", "1">>}

SomeQueries == {<<>>, <<"a", "b">>}

NoOptions == [k \in {} |-> TRUE]

Options == {NoOptions, [prefix |-> FALSE], [fuzzy |-> 0], [boost |-> [content |-> 5]],
            [boost |-> [title |-> 0, section |-> 0, subsection |-> 0, content |-> 0, doc_type |-> 0, category |-> 0]]}

Ids == {<<"d", "1">>, <<"d", "2">>, <<"d", "4">>, <<"e", "0">>}

Categories == {CatA, CatB, <<"c">>}

Arg(op, query, limit, options, id, category) ==
    [op |-> op, query |-> query, limit |-> limit, options |-> options, id |-> id, category |-> category]

ArgsOf(qs, ls, os, is, cs) ==
    {Arg("searchDocs", q, l, o, <<>>, <<>>) : q \in qs, l \in ls, o \in os}
    \cup {Arg("getDocById", <<>>, NoNum("missing"), NoOptions, i, <<>>) : i \in is}
    \cup {Arg("searchByCategory", q, l, NoOptions, <<>>, c) : q \in qs, l \in ls, c \in cs}
    \cup {Arg("getStats", <<>>, NoNum("missing"), NoOptions, <<>>, <<>>)}

AllArgs == ArgsOf(Queries, Limits, Options, Ids, Categories)

SomeArgs == ArgsOf(SomeQueries, SomeLimits, {NoOptions}, {<<"d", "1">>}, {CatA})

Ops == {"searchDocs", "getDocById", "searchByCategory", "getStats"}

(***************************************************************************)
(* The REST client of client.ts.  Each of get, post, put and delete arms a *)
(* timer that aborts the request, awaits fetch, clears the timer, maps the *)
(* response status to an error and otherwise reads the body; its catch     *)
(* block clears the timer and turns an AbortError into the timeout error.  *)
(* A message is the sequence of the pieces of its text.                    *)
(***************************************************************************)
REQUEST_TIMEOUT == 30000

Methods == {"get", "post", "put", "delete"}

\* statuses and status texts a server answers with
Statuses == {200, 201, 204, 304, 400, 401, 403, 404, 429, 500}

StatusTexts == {"", "Status Text"}

\* body texts a server answers with: JSON texts, no text, text that is not JSON
DocsBody == "{\"response\":{\"numFound\":1,\"docs\":[{}]}}"

MetadataBody == "{\"metadata\":{}}"

ObjectBody == "{}"

NullBody == "null"

EmptyBody == ""

HtmlBody == "<html>"

Bodies == {DocsBody, MetadataBody, ObjectBody, NullBody, EmptyBody, HtmlBody}

Responses == [status : Statuses, statusText : StatusTexts, body : Bodies]

NoResponse == [status |-> 0, statusText |-> "", body |-> ""]

\* how a promise settles
NoOutcome == [kind |-> "none", name |-> "", message |-> <<>>, value |-> ""]

Rejected(name, message) ==
    [kind |-> "rejected", name |-> name, message |-> message, value |-> ""]

Resolved(value) ==
    [kind |-> "resolved", name |-> "", message |-> <<>>, value |-> value]

\* response.ok
responseOk(response) == response.status >= 200 /\ response.status <= 299

\* JSON.parse on the body texts: the value read, named by its shape
JSONparse(text) ==
    IF text = DocsBody THEN Resolved("{response: {docs: [{}]}}")
    ELSE IF text = MetadataBody THEN Resolved("{metadata: {}}")
    ELSE IF text = ObjectBody THEN Resolved("{}")
    ELSE IF text = NullBody THEN Resolved("null")
    ELSE IF text = EmptyBody
         THEN Rejected("SyntaxError", <<"Unexpected end of JSON input">>)
    ELSE Rejected("SyntaxError", <<"Unexpected token '<'">>)

AuthenticationFailed(method) ==
    <<"Authentication failed", ". Check SCIX_API_TOKEN environment variable.">>
    \o (IF method = "get"
        THEN <<" Get your key from https://scixplorer.org/user/settings/token">>
        ELSE <<>>)

ResourceNotFound(method) ==
    <<"Resource not found">>
    \o (IF method = "get" THEN <<". Check bibcode format or search query.">>
                          ELSE <<".">>)

RateLimitExceeded(method) ==
    <<"Rate limit exceeded", " (5000 requests/day).">>
    \o (IF method = "get" THEN <<" Please try again later.">> ELSE <<>>)

APIError(response) ==
    <<"SciX API error: ", ToString(response.status), " ", response.statusText>>

RequestTimeout == <<"Request timeout after ", "30", " seconds">>

\* the chain of status tests after fetch resolved: the error thrown, if any
statusError(method, response) ==
    IF response.status = 401 THEN Rejected("Error", AuthenticationFailed(method))
    ELSE IF response.status = 404 THEN Rejected("Error", ResourceNotFound(method))
    ELSE IF response.status = 429 THEN Rejected("Error", RateLimitExceeded(method))
    ELSE IF ~responseOk(response) THEN Rejected("Error", APIError(response))
    ELSE NoOutcome

\* `return await response.json()`, and for delete
\* `text ? JSON.parse(text) : {}` on `await response.text()`
readBody(method, response) ==
    IF method = "delete" /\ response.body = EmptyBody
    THEN Resolved("{}")
    ELSE JSONparse(response.body)

\* a catch block that rethrows whatever it caught
catchErrorRethrow(error) == error

\* the catch block: an AbortError becomes the timeout error, any other error
\* is rethrown
catchError(error) ==
    IF error.name = "AbortError" THEN Rejected("Error", RequestTimeout) ELSE error

\* what fetch rejects with: the abort of its signal, a network failure
AbortError == Rejected("AbortError", <<"This operation was aborted">>)

NetworkError == Rejected("TypeError", <<"fetch failed">>)

\* a request: the method called, where it stands, whether its timer is armed,
\* whether its controller has aborted, what fetch settled with, and how the
\* call settled
NoRequest ==
    [method |-> "none", phase |-> "idle", timer |-> FALSE, aborted |-> FALSE,
     response |-> NoResponse, rejection |-> NoOutcome, outcome |-> NoOutcome]

\* `new AbortController()`, `setTimeout(() => controller.abort(), ...)`, fetch
NewRequest(method) ==
    [NoRequest EXCEPT !.method = method, !.phase = "fetching", !.timer = TRUE]

\* the timer callback: controller.abort()
Aborted(r) == [r EXCEPT !.timer = FALSE, !.aborted = TRUE]

\* fetch resolved: the timer is cleared and the status tested; an error thrown
\* there passes through the catch block, otherwise the body is awaited
AfterResponse(r, response) ==
    LET error == statusError(r.method, response)
    IN  IF error.kind = "rejected"
        THEN [r EXCEPT !.timer = FALSE, !.response = response,
                       !.phase = "settled", !.outcome = catchError(error)]
        ELSE [r EXCEPT !.timer = FALSE, !.response = response,
                       !.phase = "reading"]

\* the body arrived: the value is returned, or the error of reading it passes
\* through the catch block
AfterBody(r) ==
    LET read == readBody(r.method, r.response)
    IN  [r EXCEPT !.phase = "settled",
                  !.outcome = IF read.kind = "rejected" THEN catchError(read)
                              ELSE read]

\* fetch rejected: the catch block clears the timer and throws
AfterRejection(r, error) ==
    [r EXCEPT !.timer = FALSE, !.rejection = error, !.phase = "settled",
              !.outcome = catchError(error)]

\* what fetch can reject with: the abort once the controller has aborted,
\* else a network failure or an abort that did not come from the timer
RejectionsOf(r) == IF r.aborted THEN {AbortError} ELSE {AbortError, NetworkError}

(***************************************************************************)
(* The CallTool handler of index.ts with five of its tools.  A tool        *)
(* validates its arguments, makes one client call and turns the value into *)
(* text.  Arguments are records giving the length of each field present.   *)
(***************************************************************************)
Tools == {"search", "get_paper", "export", "edit_library", "delete_library"}

\* names a request may carry
ToolNames == Tools \cup {"bogus"}

\* the client method the tool calls
MethodOf(name) ==
    CASE name = "search" -> "get"
      [] name = "get_paper" -> "get"
      [] name = "export" -> "post"
      [] name = "edit_library" -> "put"
      [] name = "delete_library" -> "delete"

\* the field the tool's schema requires
RequiredField(name) ==
    CASE name = "search" -> "query"
      [] name = "get_paper" -> "bibcode"
      [] name = "export" -> "bibcodes"
      [] name = "edit_library" -> "library_id"
      [] name = "delete_library" -> "library_id"

\* the longest value the schema accepts there
MaxLength(name) ==
    CASE name = "search" -> 1000
      [] name = "get_paper" -> 19
      [] name = "export" -> 2000
      [] OTHER -> 2001

Arguments ==
    {[query |-> 1], [query |-> 0], [bibcode |-> 19], [bibcode |-> 20],
     [bibcodes |-> 1], [library_id |-> 1], [library_id |-> 0]}

\* Schema.parse(args): the parsed input, or the ZodError thrown
parse(name, args) ==
    LET field == RequiredField(name)
    IN  IF field \notin DOMAIN args
        THEN Rejected("ZodError", <<"Required">>)
        ELSE IF args[field] < 1
        THEN Rejected("ZodError", <<"Too small">>)
        ELSE IF args[field] > MaxLength(name)
        THEN Rejected("ZodError", <<"Too big">>)
        ELSE Resolved("input")

NullRead == Rejected("TypeError", <<"Cannot read properties of null">>)

UndefinedRead == Rejected("TypeError", <<"Cannot read properties of undefined">>)

\* what the tool makes of the value the client returned (markdown format)
toolResult(name, value) ==
    CASE name = "search" ->
           IF value = "null" THEN NullRead
           ELSE IF value = "{response: {docs: [{}]}}" THEN Resolved("papers")
           ELSE Resolved("no papers")
      [] name = "get_paper" ->
           IF value = "null" THEN NullRead
           ELSE IF value = "{response: {docs: [{}]}}" THEN Resolved("paper")
           ELSE Rejected("Error", <<"Paper with bibcode ", "b", " not found">>)
      [] name = "export" ->
           IF value = "null" THEN NullRead ELSE Resolved("")
      [] name = "edit_library" ->
           IF value = "null" THEN NullRead
           ELSE IF value = "{metadata: {}}" THEN Resolved("Library updated successfully!")
           ELSE UndefinedRead
      [] name = "delete_library" -> Resolved("Library deleted successfully.")

TextResponse(text) == [content |-> <<[type |-> "text", text |-> <<text>>]>>]

ErrorResponse(error) ==
    [content |-> <<[type |-> "text", text |-> <<"Error: ">> \o error.message]>>,
     isError |-> TRUE]

NoToolResponse == [content |-> <<>>]

\* a handler without its catch block: the error leaves the handler
HandlerOutcomeNoCatch(outcome) ==
    IF outcome.kind = "rejected" THEN [rejected |-> outcome.name]
    ELSE TextResponse(outcome.value)

\* the try and the catch of the handler around one tool: its response
HandlerOutcome(outcome) ==
    IF outcome.kind = "rejected" THEN ErrorResponse(outcome)
    ELSE TextResponse(outcome.value)

\* a handler call: the tool asked for, its arguments, where the call stands,
\* the client calls it made, and its response
NoToolCall ==
    [phase |-> "idle", name |-> "", args |-> [none |-> 0], clientCalls |-> 0,
     response |-> NoToolResponse]

(***************************************************************************)
(* The client and the handler as state machines: one request at a time,    *)
(* suspended at `await fetch(...)` and at the read of the body.            *)
(***************************************************************************)
engine == <<file, docs, miniSearch, pc, readCount, buildCount, last, snip, hist, titled>>

\* a call of client.get, post, put or delete, up to its `await fetch(...)`
Request(method) ==
    /\ req.phase \in {"idle", "settled"}
    /\ req' = NewRequest(method)
    /\ UNCHANGED <<engine, mcp>>

\* the timer set by setTimeout runs out before fetch settled
TimerFires ==
    /\ req.phase = "fetching"
    /\ req.timer
    /\ req' = Aborted(req)
    /\ UNCHANGED <<engine, mcp>>

\* fetch resolves with a response
FetchResolves(response) ==
    /\ req.phase = "fetching"
    /\ ~req.aborted
    /\ req' = AfterResponse(req, response)
    /\ UNCHANGED <<engine, mcp>>

\* fetch rejects
FetchRejects(error) ==
    /\ req.phase = "fetching"
    /\ error \in RejectionsOf(req)
    /\ req' = AfterRejection(req, error)
    /\ UNCHANGED <<engine, mcp>>

\* the body of a 2xx response has been read
BodyArrives ==
    /\ req.phase = "reading"
    /\ req' = AfterBody(req)
    /\ UNCHANGED <<engine, mcp>>

NextClient ==
    \/ \E method \in Methods : Request(method)
    \/ TimerFires
    \/ \E response \in Responses : FetchResolves(response)
    \/ \E error \in {AbortError, NetworkError} : FetchRejects(error)
    \/ BodyArrives

\* the handler up to the tool's `await client.<method>(...)`, or to its
\* response when the name is unknown or the arguments do not validate
CallTool(name, args) ==
    /\ mcp.phase \in {"idle", "responded"}
    /\ req.phase \in {"idle", "settled"}
    /\ LET input == IF name \in Tools THEN parse(name, args)
                    ELSE Rejected("Error", <<"Unknown tool: ", name>>)
       IN  IF input.kind = "rejected"
           THEN /\ mcp' = [phase |-> "responded", name |-> name, args |-> args,
                           clientCalls |-> 0, response |-> HandlerOutcome(input)]
                /\ UNCHANGED req
           ELSE /\ mcp' = [phase |-> "awaiting", name |-> name, args |-> args,
                           clientCalls |-> 1, response |-> NoToolResponse]
                /\ req' = NewRequest(MethodOf(name))
    /\ UNCHANGED engine

\* the client call settled: the tool throws what the client threw, or makes
\* its text of the value, and the handler responds
ToolReturns ==
    /\ mcp.phase = "awaiting"
    /\ req.phase = "settled"
    /\ mcp' = [mcp EXCEPT !.phase = "responded",
                          !.response = HandlerOutcome(
                              IF req.outcome.kind = "rejected" THEN req.outcome
                              ELSE toolResult(mcp.name, req.outcome.value))]
    /\ UNCHANGED <<engine, req>>

NextServer ==
    \/ \E name \in ToolNames, args \in Arguments : CallTool(name, args)
    \/ TimerFires
    \/ \E response \in Responses : FetchResolves(response)
    \/ \E error \in {AbortError, NetworkError} : FetchRejects(error)
    \/ BodyArrives
    \/ ToolReturns

(***************************************************************************)
(* The engine as a state machine.  A public call suspends once, in         *)
(* initIndex at `await readFile`; everything else runs without yielding.   *)
(*   pc[c] = "idle"     no call in slot c                                  *)
(*           "reading"  the call is suspended in readFile                  *)
(*           "cached"   initIndex returned at once (miniSearch was set)    *)
(*           "loaded"   initIndex returned after building the index        *)
(* The operation and arguments of a call are read only after initIndex     *)
(* has returned; they are drawn at the step that reads them.               *)
(* last is the outcome of the call that completed last, kept until the     *)
(* next call starts.  hist is the arguments and answer of one earlier      *)
(* search, kept for good once taken.                                       *)
(***************************************************************************)
Calls == 1..MaxCalls

NoIndex == [live |-> FALSE, fields |-> <<>>, documents |-> <<>>, terms |-> <<>>]

\* BuildIndex where a rebuild leaves out the last document
BuildIndexLossy(ds) ==
    [live |-> TRUE] @@ addAll(NewIndex(MainFields), SubSeq(ds, 1, Len(ds) - buildCount))

\* miniSearch = new MiniSearch(...); miniSearch.addAll(docs)
BuildIndex(ds) == [live |-> TRUE] @@ addAll(NewIndex(MainFields), ds)

NoCall == [call |-> 0, op |-> "none", args |-> <<>>, status |-> "none", value |-> <<>>,
           raw |-> <<>>, searched |-> FALSE, message |-> <<>>, via |-> "none", indexed |-> 0, corpus |-> 0]

NoSnip == [content |-> <<>>, terms |-> <<>>, maxLen |-> 0, out |-> <<>>, done |-> FALSE]

\* no earlier search is remembered
NoHist == [set |-> FALSE, args |-> <<>>, value |-> <<>>]

NoTitled == [doc |-> <<>>, heading |-> <<>>, out |-> <<>>, kept |-> FALSE, done |-> FALSE]

Thrown(c, op, message) ==
    [NoCall EXCEPT !.call = c, !.op = op, !.status = "error", !.message = message, !.via = pc[c],
                   !.indexed = Len(miniSearch.documents), !.corpus = Len(docs)]

Returned(c, a, r) ==
    [NoCall EXCEPT !.call = c, !.op = a.op, !.args = a, !.status = "ok", !.value = r.value,
                   !.raw = r.raw, !.searched = r.searched, !.via = pc[c],
                   !.indexed = Len(miniSearch.documents), !.corpus = Len(docs)]

Init == /\ file \in Files
        /\ docs = <<>>
        /\ miniSearch = NoIndex
        /\ pc = [c \in Calls |-> "idle"]
        /\ readCount = 0
        /\ buildCount = 0
        /\ last = NoCall
        /\ snip = NoSnip
        /\ hist = NoHist
        /\ titled = NoTitled
        /\ req = NoRequest
        /\ mcp = NoToolCall

\* initIndex without its guard
IndexCachedNever == FALSE

\* a guard that also remembers a failed attempt
IndexCachedOnceTried == miniSearch.live \/ readCount > 0

\* the guard of initIndex: `if (miniSearch) return`
IndexCached == miniSearch.live

\* A public entry point is called: initIndex runs up to readFile, or returns at once.
Start(c) ==
    /\ pc[c] = "idle"
    /\ IF IndexCached
       THEN /\ pc' = [pc EXCEPT ![c] = "cached"]
            /\ UNCHANGED readCount
       ELSE /\ readCount < MaxReads
            /\ readCount' = readCount + 1
            /\ pc' = [pc EXCEPT ![c] = "reading"]
    /\ last' = NoCall
    /\ UNCHANGED <<file, docs, miniSearch, buildCount, snip, hist, titled, req, mcp>>

\* the message of the error that the catch around readFile throws
LoadError(cause) == <<"Failed to load SciX documentation index at ", DOCS_PATH, ": ", cause>>

\* readFile rejects: initIndex throws the load error and the call fails.
ReadFails(c) ==
    /\ pc[c] = "reading"
    /\ file.kind \in {"ENOENT", "EACCES"}
    /\ \E op \in Ops : last' = Thrown(c, op, LoadError(file.kind))
    /\ pc' = [pc EXCEPT ![c] = "idle"]
    /\ UNCHANGED <<file, docs, miniSearch, readCount, buildCount, snip, hist, titled, req, mcp>>

\* JSON.parse throws, or the parsed value cannot be mapped: the error leaves
\* initIndex as it is, before docs is assigned.
ParseFails(c) ==
    /\ pc[c] = "reading"
    /\ \/ file.kind = "notjson"
       \/ file.kind = "object"
       \/ file.kind = "array" /\ \E i \in 1..Len(file.value) : IsNull(file.value[i])
    /\ \E op \in Ops :
          last' = Thrown(c, op, IF file.kind = "notjson" THEN <<"SyntaxError">> ELSE <<"TypeError">>)
    /\ pc' = [pc EXCEPT ![c] = "idle"]
    /\ UNCHANGED <<file, docs, miniSearch, readCount, buildCount, snip, hist, titled, req, mcp>>

\* readFile resolves: the rest of initIndex runs without yielding. docs is
\* assigned, then miniSearch, then the documents are added one by one; the
\* first rejected document makes addAll throw with both already assigned.
Build(c) ==
    /\ pc[c] = "reading"
    /\ file.kind = "array"
    /\ \A i \in 1..Len(file.value) : ~IsNull(file.value[i])
    /\ LET cleaned == CleanCorpus(file.value)
       IN  /\ docs' = cleaned
           /\ miniSearch' = BuildIndex(cleaned)
           /\ buildCount' = buildCount + 1
           /\ IF FirstRejected(cleaned) = 0
              THEN /\ pc' = [pc EXCEPT ![c] = "loaded"]
                   /\ UNCHANGED last
              ELSE /\ pc' = [pc EXCEPT ![c] = "idle"]
                   /\ \E op \in Ops :
                         last' = [Thrown(c, op, <<"MiniSearch: duplicate ID">>)
                                     EXCEPT !.indexed = Len(miniSearch'.documents),
                                            !.corpus = Len(cleaned)]
    /\ UNCHANGED <<file, readCount, snip, hist, titled, req, mcp>>

\* the body of the entry point after `await initIndex()`
Eval(a) ==
    CASE a.op = "searchDocs" -> searchDocs(docs, miniSearch, a.query, a.limit, a.options)
      [] a.op = "getDocById" -> [value |-> getDocById(docs, a.id), raw |-> <<>>, searched |-> FALSE]
      [] a.op = "searchByCategory" -> searchByCategory(docs, a.category, a.query, a.limit)
      [] a.op = "getStats" -> [value |-> getStats(docs), raw |-> <<>>, searched |-> FALSE]

\* tempSearch.addAll(categoryDocs) throws on a repeated id
EvalThrows(a) ==
    /\ a.op = "searchByCategory"
    /\ trim(a.query) # <<>>
    /\ LET InCategory(d) == "category" \in DOMAIN d /\ d["category"] = a.category
       IN  FirstRejected(SelectSeq(docs, InCategory)) # 0

\* initIndex has returned: the entry point computes its result and returns.
Finish(c, args) ==
    /\ pc[c] \in {"cached", "loaded"}
    /\ \E a \in args :
          LET r == Eval(a)
          IN  last' = IF EvalThrows(a) THEN Thrown(c, a.op, <<"MiniSearch: duplicate ID">>)
                      ELSE Returned(c, a, r)
    /\ pc' = [pc EXCEPT ![c] = "idle"]
    /\ UNCHANGED <<file, docs, miniSearch, readCount, buildCount, snip, titled, req, mcp>>

Answer(c) == Finish(c, SomeArgs) /\ UNCHANGED hist

AnswerAny(c) == Finish(c, AllArgs) /\ UNCHANGED hist

Next == \E c \in Calls : Start(c) \/ ReadFails(c) \/ ParseFails(c) \/ Build(c) \/ Answer(c)

Spec == Init /\ [][Next]_vars

\* one call at a time, over the full argument sets
NextSeq == Start(1) \/ ReadFails(1) \/ ParseFails(1) \/ Build(1) \/ AnswerAny(1)

SpecSeq == Init /\ [][NextSeq]_vars

\* the searches whose answers are compared with those of later calls
SearchOps == {"searchDocs", "searchByCategory"}

\* the answer just given is kept as the earlier search, or hist stays as it is
Remember ==
    \/ hist' = hist
    \/ /\ ~hist.set
       /\ last'.status = "ok"
       /\ last'.op \in SearchOps
       /\ hist' = [set |-> TRUE, args |-> last'.args, value |-> last'.value]

\* two searches with a query, a browse, a lookup and the statistics
HistArgs == {Arg("searchDocs", <<"a", "b">>, NoNum("missing"), NoOptions, <<>>, <<>>),
             Arg("searchDocs", <<"a", "b">>, Num(2), NoOptions, <<>>, <<>>),
             Arg("searchByCategory", <<>>, NoNum("missing"), NoOptions, <<>>, CatA),
             Arg("searchByCategory", <<"a", "b">>, Num(2), NoOptions, <<>>, CatA),
             Arg("getDocById", <<>>, NoNum("missing"), NoOptions, <<"d", "1">>, <<>>),
             Arg("getStats", <<>>, NoNum("missing"), NoOptions, <<>>, <<>>)}

AnswerTracked(c) == Finish(c, HistArgs) /\ Remember

\* interleaved calls, with one earlier search kept to compare later answers with
NextHist == \E c \in Calls : Start(c) \/ ReadFails(c) \/ ParseFails(c) \/ Build(c) \/ AnswerTracked(c)

SpecHist == Init /\ [][NextHist]_vars

(***************************************************************************)
(* A caller that writes to what a call returned.  The hits and the         *)
(* statistics are objects made for the caller; the chunk that getDocById   *)
(* returns is the element of docs, so a write to it is a write to docs.    *)
(***************************************************************************)
\* what the caller makes of a record: its content is overwritten
Overwritten(d) == [d EXCEPT !["content"] = <<"z">>]

\* the value of the call that completed last holds a record to write to
HoldsRecord ==
    /\ last.status = "ok"
    /\ CASE last.op = "getDocById" -> last.value.found
          [] last.op = "getStats" -> TRUE
          [] OTHER -> last.value # <<>>

Modify ==
    /\ HoldsRecord
    /\ docs' = IF last.op = "getDocById"
               THEN [docs EXCEPT ![last.value.ref] = Overwritten(@)]
               ELSE docs
    /\ last' = [NoCall EXCEPT !.call = last.call, !.op = "modify"]
    /\ UNCHANGED <<file, miniSearch, pc, readCount, buildCount, snip, hist, titled, req, mcp>>

AnswerCaller(c) == Finish(c, HistArgs) /\ UNCHANGED hist

\* one call at a time, with a caller that may write to the value returned
NextCaller == Start(1) \/ ReadFails(1) \/ ParseFails(1) \/ Build(1) \/ AnswerCaller(1) \/ Modify

SpecCaller == Init /\ [][NextCaller]_vars

(***************************************************************************)
(* makeSnippet on its own, over contents around the window boundaries.     *)
(***************************************************************************)
\* lengths next to 0, half a window and a whole window
PadLengths == {n \in 0..(SNIPPET_MAX_LENGTH + MaxPad) :
                  \E b \in {0, SNIPPET_MAX_LENGTH \div 2, SNIPPET_MAX_LENGTH} : n - b \in (0 - MaxPad)..MaxPad}

SnipContents == {<<>>}
                \cup {Rep(n, "x") \o <<"A", "b">> \o Rep(m, "y") : n \in PadLengths, m \in PadLengths}
                \cup {Rep(4, "I-dot") \o <<"a", "b">>,
                      Rep(SNIPPET_MAX_LENGTH \div 2 + 1, "I-dot") \o <<"a", "b">> \o Rep(SNIPPET_MAX_LENGTH \div 2, "y")}

SnipTerms == {<<>>, << <<"a", "b">> >>, << <<"z">>, <<"y">> >>, << <<"y", "y">>, <<"B">> >>}

\* the default width, and a narrow odd one
SnipMaxLens == {SNIPPET_MAX_LENGTH, 5}

\* one application of makeSnippet to a content, a term list and a width
Snippet ==
    /\ ~snip.done
    /\ \E content \in SnipContents, terms \in SnipTerms, maxLen \in SnipMaxLens :
          snip' = [content |-> content, terms |-> terms, maxLen |-> maxLen,
                   out |-> makeSnippet(content, terms, maxLen), done |-> TRUE]
    /\ UNCHANGED <<file, docs, miniSearch, pc, readCount, buildCount, last, hist, titled, req, mcp>>

InitSnippet == Init /\ file = FileOf("array", <<>>)

SpecSnippet == InitSnippet /\ [][Snippet]_vars

(***************************************************************************)
(* deriveTitle on its own, over records whose title candidates are each    *)
(* empty, usable or navigation noise.                                      *)
(***************************************************************************)
NavWords == <<"W", "h", "a", "t", "'", "s", " ", "n", "e", "w">>

\* contents without a heading, with one, and with a heading that is noise
TitleContents == {<<"a", "b">>,
                  <<"a", "b", "\n", "#", "#", " ", "H", "d", " ", "\n", "c", "d">>,
                  <<"#", " ">> \o NavWords \o <<"\n", "a", "b">>}

TitleSubsections == {<<" ">>, <<" ", "S", "b", " ">>, NavWords}

TitleSections == {<<>>, <<"S", "c">>, <<"w", "h", "a", "t", "s", "n", "e", "w">>}

TitleTitles == {<<>>, <<"T", "t">>, <<"W", "H", "A", "T", " ", "_", "-", " ", "N", "E", "W">>}

TitleFiles == {<<>>, <<"a", "b", "-", "_", "c", "d">>, <<"w", "h", "a", "t", "s", "_", "n", "e", "w">>}

TitleIds == {<<"d", "1">>, <<"w", "h", "a", "t", "-", "n", "e", "w">>}

TitleDocs == {[id |-> i, source_file |-> f, title |-> t, section |-> sc, subsection |-> sb, content |-> c] :
                 i \in TitleIds, f \in TitleFiles, t \in TitleTitles, sc \in TitleSections,
                 sb \in TitleSubsections, c \in TitleContents}

\* one application of deriveTitle, as the first .map of initIndex makes it,
\* and of the .filter to the record cleaned
Title ==
    /\ ~titled.done
    /\ \E doc \in TitleDocs :
          LET heading == extractFirstHeading(StrOf(doc, "content"))
          IN  titled' = [doc |-> doc, heading |-> heading, out |-> deriveTitle(doc, heading),
                         kept |-> KeepDoc(CleanDoc(doc)), done |-> TRUE]
    /\ UNCHANGED <<file, docs, miniSearch, pc, readCount, buildCount, last, snip, hist, req, mcp>>

SpecTitle == InitSnippet /\ [][Title]_vars

\* the client and the handler never touch the engine: one corpus file is enough
SpecClient == InitSnippet /\ [][NextClient]_vars

SpecServer == InitSnippet /\ [][NextServer]_vars

(***************************************************************************)
(* Properties.                                                             *)
(***************************************************************************)
Reading == {c \in Calls : pc[c] = "reading"}

\* the index holds every document of the cleaned corpus
BuildSucceeded == miniSearch.live /\ miniSearch.documents = docs

\* C1: calls started before the first build has completed share one build: at
\* most one read of the corpus file is in flight, and the index is constructed
\* at most once.
C1_SingleSharedBuild == Cardinality(Reading) <= 1 /\ buildCount <= 1

\* C2: whenever a call is past initIndex and about to evaluate, the corpus is
\* the fully cleaned collection and the index holds exactly its documents.
C2_QuerySeesCompleteBuild ==
    \A c \in Calls : pc[c] \in {"cached", "loaded"} =>
        /\ file.kind = "array"
        /\ docs = CleanCorpus(file.value)
        /\ miniSearch.live
        /\ miniSearch.documents = docs

\* C3: once a build has succeeded, a step of a call that starts or started
\* afterwards reads no file and leaves the corpus and the main index as they are.
C3_NoRebuildAfterSuccess ==
    [][\A c \in Calls :
          (BuildSucceeded /\ pc[c] \in {"idle", "cached"} /\ pc'[c] # pc[c]) =>
              /\ pc'[c] # "reading"
              /\ readCount' = readCount
              /\ buildCount' = buildCount
              /\ docs' = docs
              /\ miniSearch' = miniSearch]_vars

\* a category search with a query (transient sub-index) answered from the cache
C3_Witness ==
    /\ BuildSucceeded
    /\ Len(docs) > 0
    /\ readCount = 1
    /\ last.status = "ok"
    /\ last.via = "cached"
    /\ last.op = "searchByCategory"
    /\ last.searched
    /\ Len(last.value) > 0

\* C4: a failed build throws to the caller, and no call that searches the index
\* is answered from an index that holds fewer documents than the cleaned corpus.
C4_NoPartialIndexServed ==
    (last.status = "ok" /\ last.searched) => last.indexed = last.corpus

Contains(message, part) == \E i \in 1..Len(message) : message[i] = part

\* C5: a load that fails because the file is missing, unreadable or unparsable
\* throws a message that holds the resolved path and the cause.
C5_LoadErrorNamesPath ==
    (last.status = "error" /\ file.kind \in {"ENOENT", "EACCES", "notjson"}) =>
        /\ Contains(last.message, DOCS_PATH)
        /\ Contains(last.message, file.kind) \/ Contains(last.message, "SyntaxError")

\* the call that completed last is an answered searchDocs
SearchDocsAnswered == last.status = "ok" /\ last.op = "searchDocs"

RawTopScore == SetMax({last.raw[i].score : i \in 1..Len(last.raw)})

\* the position in the raw result list of the hit with this id
RawPosition(id) == CHOOSE k \in 1..Len(last.raw) : last.raw[k].doc["id"] = id

\* C6: when the query has a raw match, every returned hit scores at least 0.4
\* times the highest raw score; and when that score is 0 the cutoff drops nothing.
C6_ScoreCutoff ==
    (SearchDocsAnswered /\ last.raw # <<>>) =>
        /\ \A i \in 1..Len(last.value) :
              last.value[i]["score"] * MIN_SCORE_RATIO_DEN >= RawTopScore * MIN_SCORE_RATIO_NUM
        /\ RawTopScore = 0 =>
              Len(last.value) = Min2(Len(last.raw), maxResults(last.args.limit, docs))

\* a raw match below the cutoff is dropped although the limit leaves room for it
C6_Witness ==
    /\ SearchDocsAnswered
    /\ Len(last.value) >= 1
    /\ Len(last.value) < Min2(Len(last.raw), maxResults(last.args.limit, docs))
    /\ \E i \in 1..Len(last.raw) :
          last.raw[i].score * MIN_SCORE_RATIO_DEN < RawTopScore * MIN_SCORE_RATIO_NUM

\* C7: the hits of a non-empty query come in non-increasing score order, in the
\* relative order they had in the raw result list.
C7_ScoreOrder ==
    (SearchDocsAnswered /\ last.searched) =>
        \A i, j \in 1..Len(last.value) :
            i < j => /\ last.value[i]["score"] >= last.value[j]["score"]
                     /\ RawPosition(last.value[i]["id"]) < RawPosition(last.value[j]["id"])

\* three hits or more, with a strict drop in score and a tie
C7_Witness ==
    /\ SearchDocsAnswered
    /\ Len(last.value) >= 3
    /\ \E i \in 1..(Len(last.value) - 1) : last.value[i]["score"] > last.value[i + 1]["score"]
    /\ \E i \in 1..(Len(last.value) - 1) : last.value[i]["score"] = last.value[i + 1]["score"]

\* C8: searchDocs returns at most min(max(1, floor(L)), corpus size) hits for a
\* finite limit L, and at most min(5, corpus size) for a missing or non-finite one.
C8_LimitBound ==
    SearchDocsAnswered =>
        Len(last.value) <= IF last.args.limit.kind = "num"
                           THEN Min2(Max2(1, last.args.limit.twice \div 2), Len(docs))
                           ELSE Min2(5, Len(docs))

\* the limit 1.5 cuts a longer list of passing hits down to one
C8_Witness ==
    /\ SearchDocsAnswered
    /\ last.args.limit = Num(3)
    /\ Len(last.value) = 1
    /\ Len(filterResults(last.raw)) >= 2

\* C9: an empty or all-blank query returns the empty list and the index is
\* not searched.
C9_EmptyQuery ==
    (SearchDocsAnswered /\ \A i \in 1..Len(last.args.query) : IsSpace(last.args.query[i])) =>
        /\ last.value = <<>>
        /\ ~last.searched

\* a query of blanks only, answered over a filled index
C9_Witness ==
    /\ SearchDocsAnswered
    /\ last.args.query = <<" ", "\n">>
    /\ Len(miniSearch.documents) > 0
    /\ last.value = <<>>

\* C10: a snippet made with maxLen = 260 is at most 266 characters long.
C10_SnippetLength ==
    (snip.done /\ snip.maxLen = SNIPPET_MAX_LENGTH) => Len(snip.out) <= SNIPPET_MAX_LENGTH + 6

\* a snippet cut on both sides, of the full 266 characters
C10_Witness ==
    /\ snip.done
    /\ Len(snip.content) > SNIPPET_MAX_LENGTH
    /\ Len(snip.out) = SNIPPET_MAX_LENGTH + 6
    /\ SubSeq(snip.out, 1, 3) = <<".", ".", ".">>
    /\ SubSeq(snip.out, Len(snip.out) - 2, Len(snip.out)) = <<".", ".", ".">>

\* the same bound on the snippets of the hits that the searches return
HitSnippetLength ==
    (last.status = "ok" /\ last.op \in {"searchDocs", "searchByCategory"}) =>
        \A i \in 1..Len(last.value) : Len(last.value[i]["snippet"]) <= SNIPPET_MAX_LENGTH + 6

\* the term occurs in content at the 0-based position i, whatever the case:
\* some stretch of content from i on reads as the term once both are lowered
OccursAt(content, term, i) ==
    LET lt == toLowerCase(term)
    IN  \E n \in 0..Len(lt) :
           i + n <= Len(content) /\ toLowerCase(SubSeq(content, i + 1, i + n)) = lt

\* the positions of content at which some term occurs
Occurrences(content, terms) ==
    {i \in 0..Len(content) : \E k \in 1..Len(terms) : OccursAt(content, terms[k], i)}

Ellipsis == <<".", ".", ".">>

\* the reference snippet: the head of content when no term occurs, else the
\* window of maxLen characters that starts floor(maxLen/2) before the first
\* occurrence, with a marker on each side that is cut
ReferenceSnippet(content, terms, maxLen) ==
    LET occ == Occurrences(content, terms)
        idx == SetMin(occ)
        start == Max2(0, idx - (maxLen \div 2))
        end == Min2(Len(content), start + maxLen)
    IN  IF content = <<>> THEN <<>>
        ELSE IF occ = {}
        THEN SubSeq(content, 1, Min2(maxLen, Len(content)))
             \o (IF Len(content) > maxLen THEN Ellipsis ELSE <<>>)
        ELSE (IF start > 0 THEN Ellipsis ELSE <<>>)
             \o SubSeq(content, start + 1, end)
             \o (IF end < Len(content) THEN Ellipsis ELSE <<>>)

\* C11: makeSnippet(content, terms, maxLen) equals the reference snippet: empty
\* for empty content, the head of content (marked when cut) when no term occurs,
\* else the window around the first occurrence of a term in content, marked on
\* each side that is cut.
C11_SnippetReference ==
    snip.done => snip.out = ReferenceSnippet(snip.content, snip.terms, snip.maxLen)

\* lowering the content keeps every character in its place
SameLengthLowered(content) == \A i \in 1..Len(content) : Len(lowerChar(content[i])) = 1

\* the reference is met on every content whose lowered form has the same length
SnippetReferenceSameLength ==
    (snip.done /\ SameLengthLowered(snip.content)) =>
        snip.out = ReferenceSnippet(snip.content, snip.terms, snip.maxLen)

\* a snippet of content longer than maxLen begins or ends with the marker
SnippetOfLongContentMarked ==
    (snip.done /\ Len(snip.content) > snip.maxLen) =>
        \/ SubSeq(snip.out, 1, 3) = Ellipsis
        \/ Len(snip.out) >= 3 /\ SubSeq(snip.out, Len(snip.out) - 2, Len(snip.out)) = Ellipsis

\* the ids of the hits of the earlier search
HistIds == {hist.value[i]["id"] : i \in 1..Len(hist.value)}

\* the document is found under this id and its char_count is its content length
FoundWhole(r, id) ==
    /\ r.found
    /\ r.doc["id"] = id
    /\ r.doc["char_count"] = Len(r.doc["content"])

\* C12: every id of a hit returned by an earlier searchDocs or searchByCategory
\* is found by getDocById from then on, with that id and with char_count equal
\* to the length of its content; so is it in the answer of a later getDocById call.
C12_RoundTrip ==
    hist.set =>
        /\ \A id \in HistIds : FoundWhole(getDocById(docs, id), id)
        /\ (last.status = "ok" /\ last.op = "getDocById" /\ last.args.id \in HistIds) =>
              FoundWhole(last.value, last.args.id)

\* a later getDocById answers with a chunk of an earlier hit list whose
\* char_count in the file was stale
C12_Witness ==
    /\ hist.set
    /\ last.status = "ok"
    /\ last.op = "getDocById"
    /\ last.args.id \in HistIds
    /\ last.value.found
    /\ \E i \in 1..Len(file.value) :
          /\ file.value[i]["id"] = last.args.id
          /\ file.value[i]["char_count"] # Len(last.value.doc["content"])

LookupDone == last.op = "getDocById" /\ last.via \in {"cached", "loaded"}

\* C13: once the corpus is loaded getDocById never throws; it returns null when
\* no retained chunk has the id, and a chunk it returns is a retained chunk
\* whose id is the argument.
C13_LookupNotFound ==
    LookupDone =>
        /\ last.status = "ok"
        /\ last.value.found <=> \E i \in 1..Len(docs) : docs[i]["id"] = last.args.id
        /\ last.value.found =>
              /\ last.value.doc["id"] = last.args.id
              /\ \E i \in 1..Len(docs) : docs[i] = last.value.doc

\* the id of a record of the file that the cleaning dropped is looked up, next
\* to retained chunks: null
C13_Witness ==
    /\ LookupDone
    /\ last.status = "ok"
    /\ ~last.value.found
    /\ Len(docs) > 0
    /\ \E i \in 1..Len(file.value) : file.value[i]["id"] = last.args.id

\* the call that completed last is an answered searchByCategory
CategoryAnswered == last.status = "ok" /\ last.op = "searchByCategory"

\* the query of the last call is empty or all blanks
BlankQuery == \A i \in 1..Len(last.args.query) : IsSpace(last.args.query[i])

\* the chunks of the corpus in the category asked for, in corpus order
ChunksOfCategory ==
    LET Asked(d) == "category" \in DOMAIN d /\ d["category"] = last.args.category
    IN  SelectSeq(docs, Asked)

\* how many of n candidates the last call may return: its limit coerced
\* (10 when missing, 1 for NaN, for -Infinity and below 1, else rounded down)
AllowedOf(n) ==
    LET l == last.args.limit
    IN  CASE l.kind = "missing" -> Min2(n, 10)
          [] l.kind = "inf" -> n
          [] l.kind = "num" /\ l.twice >= 2 -> Min2(n, l.twice \div 2)
          [] OTHER -> Min2(n, 1)

\* C14: every hit of searchByCategory(cat, query, limit) has category cat, with
\* an empty query (browse) and with a non-empty one (transient index).
C14_CategoryOnly ==
    CategoryAnswered =>
        \A i \in 1..Len(last.value) : last.value[i]["category"] = last.args.category

\* a query answered from the transient index while the corpus holds a chunk of
\* another category with the query's term in it
C14_Witness ==
    /\ CategoryAnswered
    /\ last.searched
    /\ Len(last.value) >= 1
    /\ \E i \in 1..Len(docs) :
          /\ "category" \in DOMAIN docs[i]
          /\ docs[i]["category"] # last.args.category
          /\ \E t \in termsOf(last.args.query) : indexOf(docs[i]["content"], t) # -1

\* C15: with an empty or all-blank query searchByCategory returns the first
\* `limit` chunks of the category, in corpus order, each with score 0 and with
\* the first 260 characters of its content as snippet, followed by '...' exactly
\* when the content is longer.
C15_Browse ==
    (CategoryAnswered /\ BlankQuery) =>
        /\ Len(last.value) = AllowedOf(Len(ChunksOfCategory))
        /\ \A i \in 1..Len(last.value) :
              LET d == ChunksOfCategory[i]
                  head == SubSeq(d["content"], 1, Min2(SNIPPET_MAX_LENGTH, Len(d["content"])))
              IN  /\ last.value[i]["id"] = d["id"]
                  /\ last.value[i]["score"] = 0
                  /\ last.value[i]["snippet"] =
                        IF Len(d["content"]) > SNIPPET_MAX_LENGTH THEN head \o Ellipsis ELSE head

\* the limit 1.5 cuts the browse of a category of two chunks or more down to
\* the first one, in a corpus that holds chunks outside the category as well
C15_Witness ==
    /\ CategoryAnswered
    /\ BlankQuery
    /\ last.args.limit = Num(3)
    /\ Len(last.value) = 1
    /\ Len(ChunksOfCategory) >= 2
    /\ Len(ChunksOfCategory) < Len(docs)

\* C16: with a non-empty query searchByCategory returns the first `limit`
\* matches of the transient category index as they come, by descending score,
\* with no score cutoff.
C16_NoCutoffInCategory ==
    (CategoryAnswered /\ last.searched) =>
        /\ Len(last.value) = AllowedOf(Len(last.raw))
        /\ \A i \in 1..Len(last.value) :
              /\ last.value[i]["id"] = last.raw[i].doc["id"]
              /\ last.value[i]["score"] = last.raw[i].score
        /\ \A i, j \in 1..Len(last.raw) : i < j => last.raw[i].score >= last.raw[j].score

\* a returned hit scores below 0.4 times the top score
C16_Witness ==
    /\ CategoryAnswered
    /\ last.searched
    /\ \E i \in 1..Len(last.value) :
          last.value[i]["score"] * MIN_SCORE_RATIO_DEN < last.value[1]["score"] * MIN_SCORE_RATIO_NUM

\* the call that completed last is an answered getStats
StatsAnswered == last.status = "ok" /\ last.op = "getStats"

RECURSIVE SumOfCounts(_, _)
SumOfCounts(counts, keys) ==
    IF keys = {} THEN 0
    ELSE LET k == CHOOSE x \in keys : TRUE
         IN  counts[k].n + SumOfCounts(counts, keys \ {k})

\* the entries of the map are numbers and add up to total
CountsAddUpTo(counts, total) ==
    /\ \A k \in DOMAIN counts : counts[k].number
    /\ SumOfCounts(counts, DOMAIN counts) = total

\* C17: getStats returns totalDocs equal to the number of retained chunks, and
\* the counts of byCategory and those of byDocType each add up to totalDocs,
\* also when a chunk has no category or no doc_type.
C17_StatsTotals ==
    StatsAnswered =>
        /\ last.value.totalDocs = Len(docs)
        /\ CountsAddUpTo(last.value.byCategory, last.value.totalDocs)
        /\ CountsAddUpTo(last.value.byDocType, last.value.totalDocs)

\* no chunk is tagged with a name that an object literal inherits
PlainTags ==
    \A i \in 1..Len(docs) : \A f \in {"category", "doc_type"} : KeyOf(docs[i], f) \notin InheritedKeys

\* the totals agree on every corpus without such tags
StatsTotalsPlainTags == (StatsAnswered /\ PlainTags) => C17_StatsTotals

Sentinel404 == <<"4", "0", "4">>

\* a cleaned record with a title, other than '404', with content, and with a
\* char_count that is the length of the content
WellFormed(d) ==
    /\ d["title"] # <<>>
    /\ d["title"] # Sentinel404
    /\ d["content"] # <<>>
    /\ d["char_count"] = Len(d["content"])

\* the records of the file (by position) that are not well-formed once cleaned
Malformed == {j \in 1..Len(file.value) : ~WellFormed(CleanDoc(file.value[j]))}

\* the id is the id of a hit or of the chunk of the call that completed last
Answered(id) ==
    /\ last.status = "ok"
    /\ \/ last.op \in SearchOps /\ \E i \in 1..Len(last.value) : last.value[i]["id"] = id
       \/ last.op = "getDocById" /\ last.args.id = id /\ last.value.found

\* C19: after a load every retained chunk has a title, other than '404', has
\* content, and has char_count equal to the length of its content; a record of
\* the file that fails one of these is not in the cleaned corpus, and no search
\* hit and no getDocById answer is made from it.
C19_RetainedWellFormed ==
    buildCount > 0 =>
        /\ \A i \in 1..Len(docs) : WellFormed(docs[i])
        /\ \A j \in Malformed :
              /\ \A i \in 1..Len(docs) : docs[i] # CleanDoc(file.value[j])
              /\ (\A i \in 1..Len(docs) : docs[i]["id"] # file.value[j]["id"]) =>
                    /\ ~getDocById(docs, file.value[j]["id"]).found
                    /\ ~Answered(file.value[j]["id"])

\* a search that returns hits for a term that also stands in the content of
\* the '404' record of the file
C19_Witness ==
    /\ buildCount > 0
    /\ last.status = "ok"
    /\ last.op = "searchDocs"
    /\ Len(last.value) >= 1
    /\ \E j \in Malformed :
          /\ file.value[j]["title"] = Sentinel404
          /\ \E t \in termsOf(last.args.query) : indexOf(file.value[j]["content"], t) # -1

\* the title candidates of a raw record, in the order of precedence
TitleCandidates(doc) ==
    <<extractFirstHeading(doc["content"]),
      trim(doc["subsection"]),
      trim(doc["section"]),
      trim(doc["title"]),
      slugToTitle(doc["source_file"]),
      doc["id"]>>

\* the candidate is not empty and is no navigation noise
Qualifies(candidate) == candidate # <<>> /\ ~isNavText(candidate)

\* C20: the derived title is the first of heading, subsection, section, title
\* field, title-cased file name and id that is non-empty and is no navigation
\* noise; no later candidate is chosen while an earlier one qualifies.
C20_TitlePrecedence ==
    titled.done =>
        LET cs == TitleCandidates(titled.doc)
            ok == {k \in 1..Len(cs) : Qualifies(cs[k])}
        IN  ok # {} => titled.out = cs[SetMin(ok)]

\* the heading is noise and the subsection is blank: the section is the
\* title, although the title field and the file name qualify as well
C20_Witness ==
    /\ titled.done
    /\ isNavText(titled.heading)
    /\ trim(titled.doc["subsection"]) = <<>>
    /\ titled.out = titled.doc["section"]
    /\ Qualifies(trim(titled.doc["title"]))
    /\ Qualifies(slugToTitle(titled.doc["source_file"]))

\* the optional fields of a record that are strings
OptionalFields == {"title", "section", "subsection", "source_file", "source_url", "doc_type", "category"}

\* the records of the file with this id
RawOf(id) == {file.value[j] : j \in {k \in 1..Len(file.value) : file.value[k]["id"] = id}}

\* every optional field that the file's record lacks is the empty string in
\* rec (the title apart, which is derived from the other fields)
Defaulted(rec) ==
    \A raw \in RawOf(rec["id"]) : \A f \in (OptionalFields \ {"title"}) \ DOMAIN raw :
        f \in DOMAIN rec /\ rec[f] = <<>>

\* the load met no unreadable file, no text that is no array of records and
\* no repeated id
LoadableFile ==
    /\ file.kind = "array"
    /\ \A j \in 1..Len(file.value) : ~IsNull(file.value[j])
    /\ FirstRejected(CleanCorpus(file.value)) = 0

\* C21: a record without some optional field does not make the load fail, and
\* the field reads as the empty string in the retained chunk and in every hit
\* built from it.
C21_MissingFieldsDefaulted ==
    /\ LoadableFile => last.status # "error"
    /\ buildCount > 0 =>
          \A i \in 1..Len(docs) : "char_count" \in DOMAIN docs[i] /\ Defaulted(docs[i])
    /\ (last.status = "ok" /\ last.op \in SearchOps) =>
          \A i \in 1..Len(last.value) : Defaulted(last.value[i])

\* the load goes through whatever optional fields are missing, and the hits
\* of a search with a query have every missing field as the empty string
MissingFieldsTolerated ==
    /\ LoadableFile => last.status # "error"
    /\ (last.status = "ok" /\ last.op \in SearchOps /\ last.searched) =>
          \A i \in 1..Len(last.value) : Defaulted(last.value[i])

\* section and subsection are defaulted in the retained chunks
SectionsDefaulted ==
    buildCount > 0 =>
        \A i \in 1..Len(docs) : \A f \in {"section", "subsection"} :
            f \in DOMAIN docs[i] /\ (\A raw \in RawOf(docs[i]["id"]) : f \notin DOMAIN raw => docs[i][f] = <<>>)

\* a browse hit built from a chunk without source_file
BrowseHitOfPartial ==
    /\ last.status = "ok"
    /\ last.op = "searchByCategory"
    /\ ~last.searched
    /\ \E i \in 1..Len(last.value) : "source_file" \notin DOMAIN last.value[i]

\* what the call answers from the corpus file alone, with the corpus and the
\* index as the build makes them
FreshAnswer(a) ==
    LET ds == CleanCorpus(file.value)
        index == BuildIndex(ds)
    IN  CASE a.op = "searchDocs" -> searchDocs(ds, index, a.query, a.limit, a.options).value
          [] a.op = "getDocById" -> getDocById(ds, a.id)
          [] a.op = "searchByCategory" -> searchByCategory(ds, a.category, a.query, a.limit).value
          [] a.op = "getStats" -> getStats(ds)

\* C22: no returned value shares state with the cached corpus or index: the
\* answer of every call is what the call makes of the corpus file, whatever
\* the caller has written to the values returned before.
C22_NoSharedState ==
    (last.status = "ok" /\ last.op \in Ops) => last.value = FreshAnswer(last.args)

\* the same with the caller writing to hits and statistics only
NoSharedStateInHits ==
    [][(Modify /\ last.op # "getDocById") => docs' = docs /\ miniSearch' = miniSearch]_vars

\* C23: a record whose title candidates are all navigation noise is dropped,
\* by the check on source_file, source_url and id; and no record that is
\* retained has a navigation-noise title.
C23_NavigationNoiseDropped ==
    titled.done =>
        LET cs == TitleCandidates(titled.doc)
        IN  /\ (\A k \in 1..Len(cs) : isNavText(cs[k])) => (~titled.kept /\ isWhatsNew(titled.doc))
            /\ titled.kept => ~isNavText(titled.out)

\* all six candidates are noise; the title falls back to the id and the
\* record is dropped
C23_Witness ==
    /\ titled.done
    /\ \A k \in 1..6 : isNavText(TitleCandidates(titled.doc)[k])
    /\ titled.out = titled.doc["id"]
    /\ ~titled.kept

\* the same on the corpora that the engine loads
RetainedTitlesNoNoise == \A i \in 1..Len(docs) : ~isNavText(docs[i]["title"])

\* C24: for a finite limit L searchByCategory returns at most max(1, floor(L))
\* hits, with and without a query.
C24_CategoryLimitBound ==
    (CategoryAnswered /\ last.args.limit.kind = "num") =>
        Len(last.value) <= Max2(1, last.args.limit.twice \div 2)

\* the limit 1.5 cuts the matches of a query, two or more, down to one
C24_Witness ==
    /\ CategoryAnswered
    /\ last.searched
    /\ last.args.limit = Num(3)
    /\ Len(last.raw) >= 2
    /\ Len(last.value) = 1

(***************************************************************************)
(* The REST client: what a call settles with.                              *)
(***************************************************************************)
\* the call has settled after fetch resolved with a response
SettledOnResponse == req.phase = "settled" /\ req.response # NoResponse

\* the outcome the response status asks for
OutcomeOfStatus ==
    LET status == req.response.status
        outcome == req.outcome
    IN  IF status = 401
        THEN outcome.kind = "rejected" /\ Head(outcome.message) = "Authentication failed"
        ELSE IF status = 404
        THEN outcome.kind = "rejected" /\ Head(outcome.message) = "Resource not found"
        ELSE IF status = 429
        THEN outcome.kind = "rejected" /\ Head(outcome.message) = "Rate limit exceeded"
        ELSE IF status < 200 \/ status > 299
        THEN /\ outcome.kind = "rejected"
             /\ Head(outcome.message) = "SciX API error: "
             /\ outcome.message[2] = ToString(status)
        ELSE /\ outcome.kind = "resolved"
             /\ JSONparse(req.response.body).kind = "resolved"
                    => outcome = JSONparse(req.response.body)

\* C25: for get, post, put and delete, a call that settled after fetch
\* resolved has the outcome its response status asks for: 401, 404 and 429
\* their own errors, any other status outside 200..299 an API error naming
\* the status, and a status in 200..299 the parsed body and no error.
C25_StatusDecidesOutcome == SettledOnResponse => OutcomeOfStatus

\* the body of the response can be read: it is JSON text, or delete got no text
ReadableBody ==
    \/ JSONparse(req.response.body).kind = "resolved"
    \/ req.method = "delete" /\ req.response.body = EmptyBody

\* the status decides the outcome whenever the body can be read
StatusDecidesOutcomeOfReadableBody ==
    (SettledOnResponse /\ ReadableBody) => OutcomeOfStatus

\* a 2xx response whose body cannot be read settles with the error of reading it
UnreadableBodyRejects ==
    (SettledOnResponse /\ responseOk(req.response) /\ ~ReadableBody)
        => req.outcome.kind = "rejected" /\ req.outcome.name = "SyntaxError"

\* the call has settled after fetch rejected
SettledOnRejection == req.phase = "settled" /\ req.rejection # NoOutcome

\* C26: for get, post, put and delete, a request whose timer fired before
\* fetch settled never gets a response and never returns a value, and a call
\* whose fetch rejected after the abort or with an AbortError rejects with
\* 'Request timeout after 30 seconds', 30 being the timer's delay in seconds;
\* a call whose fetch rejected with anything else rejects with that error.
C26_AbortIsTimeout ==
    /\ req.aborted => req.response = NoResponse /\ req.outcome.kind # "resolved"
    /\ SettledOnRejection =>
          IF req.aborted \/ req.rejection.name = "AbortError"
          THEN /\ req.outcome.kind = "rejected"
               /\ req.outcome.message =
                     <<"Request timeout after ", ToString(REQUEST_TIMEOUT \div 1000),
                       " seconds">>
          ELSE req.outcome = req.rejection

C26_Witness == SettledOnRejection /\ req.aborted /\ req.method = "delete"

\* a network failure is reached as well
NetworkFailureRethrown ==
    (SettledOnRejection /\ req.rejection = NetworkError) => req.outcome = NetworkError

(***************************************************************************)
(* Failed loads.                                                           *)
(***************************************************************************)
\* call c leaves initIndex by the error of readFile or of JSON.parse and .map
LoadFailsIn(c) ==
    /\ pc[c] = "reading"
    /\ pc'[c] = "idle"
    /\ buildCount' = buildCount

\* call c enters a public entry point
EntersIn(c) == pc[c] = "idle" /\ pc'[c] # "idle"

\* C27: a failed read or parse of the corpus file leaves docs empty and
\* miniSearch absent, as they were; a call that enters while the index is
\* absent reads the file again, whatever failed before; and the file is read
\* only on entry, so at most once in a call.
C27_FailedLoadRetried ==
    [][/\ \A c \in Calls : LoadFailsIn(c) =>
             /\ docs' = docs /\ miniSearch' = miniSearch
             /\ docs = <<>> /\ ~miniSearch.live
             /\ last'.status = "error"
       /\ \A c \in Calls : (EntersIn(c) /\ ~miniSearch.live) =>
             pc'[c] = "reading" /\ readCount' = readCount + 1
       /\ readCount' # readCount => \E c \in Calls : EntersIn(c)]_vars

\* a call has failed on a second read of a file that is not JSON
C27_Witness ==
    /\ readCount = 2
    /\ last.status = "error"
    /\ file.kind = "notjson"
    /\ Reading = {}

(***************************************************************************)
(* Cutoff and truncation in searchDocs.                                    *)
(***************************************************************************)
\* the raw matches that score at least 0.4 times the top raw score, in raw order
RawPassing ==
    LET Pass(r) == r.score * MIN_SCORE_RATIO_DEN >= RawTopScore * MIN_SCORE_RATIO_NUM
    IN  SelectSeq(last.raw, Pass)

\* the limit as searchDocs reads it
CoercedLimit ==
    IF last.args.limit.kind = "num"
    THEN Max2(1, last.args.limit.twice \div 2)
    ELSE 5

\* C28: the ids returned by searchDocs are those of the first
\* min(coerced limit, corpus size) raw matches that pass the cutoff, in raw
\* order; in particular the top raw match is returned whenever there is one.
C28_CutoffThenTruncate ==
    (SearchDocsAnswered /\ last.searched) =>
        /\ Len(last.value) = Min2(Min2(CoercedLimit, Len(docs)), Len(RawPassing))
        /\ \A i \in 1..Len(last.value) :
              last.value[i]["id"] = StrOf(RawPassing[i].doc, "id")
        /\ last.raw # <<>> =>
              /\ last.value # <<>>
              /\ last.value[1]["id"] = StrOf(last.raw[1].doc, "id")

\* the cutoff drops a raw match and the limit drops a match that passes it
C28_Witness ==
    /\ SearchDocsAnswered
    /\ last.searched
    /\ Len(RawPassing) < Len(last.raw)
    /\ Len(last.value) >= 1
    /\ Len(last.value) < Len(RawPassing)

(***************************************************************************)
(* The first occurrence in the snippet.                                    *)
(***************************************************************************)
\* the stretch of content at the 0-based position i that reads as the term
\* once both are lowered
StretchAt(content, term, i) ==
    LET lt == toLowerCase(term)
        n == CHOOSE n \in 0..Len(lt) :
                 i + n <= Len(content) /\ toLowerCase(SubSeq(content, i + 1, i + n)) = lt
    IN  SubSeq(content, i + 1, i + n)

\* t is a stretch of s
Shows(s, t) == \E j \in 0..(Len(s) - Len(t)) : SubSeq(s, j + 1, j + Len(t)) = t

\* the snippet shows, in full, each term of at most floor(maxLen/2) characters
\* that occurs at the first position of content where any term occurs
LeftmostOccurrenceShown ==
    LET occ == Occurrences(snip.content, snip.terms)
        idx == SetMin(occ)
    IN  occ # {} =>
           \A k \in 1..Len(snip.terms) :
               (/\ OccursAt(snip.content, snip.terms[k], idx)
                /\ Len(snip.terms[k]) <= snip.maxLen \div 2)
                   => Shows(snip.out, StretchAt(snip.content, snip.terms[k], idx))

\* C29: for non-empty content and maxLen = 260, when some term occurs in
\* content whatever the case, the snippet contains in full the occurrence at
\* the leftmost position, provided its term is at most 130 characters long.
C29_LeftmostOccurrenceInSnippet ==
    (snip.done /\ snip.maxLen = SNIPPET_MAX_LENGTH /\ snip.content # <<>>)
        => LeftmostOccurrenceShown

\* the occurrence is shown whenever lowering keeps every character in place,
\* for either width
LeftmostOccurrenceShownSameLength ==
    (snip.done /\ snip.content # <<>> /\ SameLengthLowered(snip.content))
        => LeftmostOccurrenceShown

(***************************************************************************)
(* The CallTool handler: what it responds.                                 *)
(***************************************************************************)
\* what stops the call before the tool runs: an unknown name, or arguments
\* that the tool's schema rejects
EarlyError ==
    IF mcp.name \notin Tools THEN Rejected("Error", <<"Unknown tool: ", mcp.name>>)
    ELSE parse(mcp.name, mcp.args)

\* how the call ends: with the early error, with the client's error, or with
\* what the tool makes of the client's value
CallEnds ==
    IF EarlyError.kind = "rejected" THEN EarlyError
    ELSE IF req.outcome.kind = "rejected" THEN req.outcome
    ELSE toolResult(mcp.name, req.outcome.value)

\* the response fits the way the call ended
ResponseFits ==
    /\ DOMAIN mcp.response \subseteq {"content", "isError"}
    /\ "content" \in DOMAIN mcp.response
    /\ Len(mcp.response.content) = 1
    /\ mcp.response.content[1].type = "text"
    /\ IF CallEnds.kind = "rejected"
       THEN /\ "isError" \in DOMAIN mcp.response
            /\ mcp.response.isError
            /\ mcp.response.content[1].text = <<"Error: ">> \o CallEnds.message
       ELSE /\ "isError" \notin DOMAIN mcp.response
            /\ mcp.response.content[1].text = <<CallEnds.value>>
    /\ EarlyError.kind = "rejected" => mcp.clientCalls = 0

\* C30: the handler always ends with a response, never with a rejection: an
\* unknown tool name, arguments that fail validation and an error thrown by
\* the tool or the client give isError true and the text 'Error: <message>',
\* a successful call gives one text item and no isError; and a call that
\* responds without having run its tool leaves the client untouched.
C30_HandlerNeverRejects ==
    /\ [](mcp.phase = "responded" => ResponseFits)
    /\ [][(mcp'.phase = "responded" /\ mcp.phase # "awaiting") => req' = req]_vars

\* an error response after the client's timer fired, and the arguments of a
\* call that failed validation before it
C30_Witness ==
    /\ mcp.phase = "responded"
    /\ EarlyError.kind = "resolved"
    /\ req.aborted
    /\ mcp.response.content[1].text = <<"Error: ">> \o RequestTimeout

====
